---- MODULE Spec2Model ----
(***************************************************************************)
(* Kuboard resource watch subsystem: the per-kind Watchers of              *)
(* src-tauri/src/kubernetes/watch.rs, the registry in app_state.rs and the *)
(* start/stop/context commands of commands/mod.rs.                         *)
(***************************************************************************)
EXTENDS Integers, Sequences, FiniteSets, TLC

(***************************************************************************)
(* Bounds of the model.                                                    *)
(***************************************************************************)
\* tasks spawned in one run (tokio::spawn calls)
MaxTasks == 2
\* notifications the subscriptions deliver in one run, all tasks together
MaxNotifs == 2
\* start_watch invocations that have read the client and wait for the Watcher lock
MaxInflight == 1
\* stream items fed to the single task of SpecTask
TaskNotifs == 4
\* stream items fed to the single task of SpecBus
BusNotifs == 3
\* notifications the subscriptions deliver in one run of SpecFair, all tasks together
FairNotifs == 1
\* start_watch invocations of SpecRace that wait for a Watcher lock at one time
RaceInflight == 2
\* commands invoked in one run of SpecLocks or SpecKinds
LockCalls == 3
\* notifications the subscriptions deliver in one run of SpecKinds, all tasks together
KindNotifs == 1

(***************************************************************************)
(* Resource kinds and their per-kind literals.                             *)
(***************************************************************************)
Kinds == {"pod", "deployment", "statefulset", "daemonset", "replicaset", "service", "cronjob"}

WatchEventName(K) ==
    CASE K = "pod"         -> "pod-watch-event"
      [] K = "deployment"  -> "deployment-watch-event"
      [] K = "statefulset" -> "statefulset-watch-event"
      [] K = "daemonset"   -> "daemonset-watch-event"
      [] K = "replicaset"  -> "replicaset-watch-event"
      [] K = "service"     -> "service-watch-event"
      [] K = "cronjob"     -> "cronjob-watch-event"

\* mutant: the error name of the pod Watcher left in the copy for cron jobs
WatchErrorName_CopyPaste(K) ==
    CASE K = "pod"         -> "pod-watch-error"
      [] K = "deployment"  -> "deployment-watch-error"
      [] K = "statefulset" -> "statefulset-watch-error"
      [] K = "daemonset"   -> "daemonset-watch-error"
      [] K = "replicaset"  -> "replicaset-watch-error"
      [] K = "service"     -> "service-watch-error"
      [] K = "cronjob"     -> "pod-watch-error"

WatchErrorName(K) ==
    CASE K = "pod"         -> "pod-watch-error"
      [] K = "deployment"  -> "deployment-watch-error"
      [] K = "statefulset" -> "statefulset-watch-error"
      [] K = "daemonset"   -> "daemonset-watch-error"
      [] K = "replicaset"  -> "replicaset-watch-error"
      [] K = "service"     -> "service-watch-error"
      [] K = "cronjob"     -> "cronjob-watch-error"

StartedMsg(K) ==
    CASE K = "pod"         -> "Pod watch started"
      [] K = "deployment"  -> "Deployment watch started"
      [] K = "statefulset" -> "StatefulSet watch started"
      [] K = "daemonset"   -> "DaemonSet watch started"
      [] K = "replicaset"  -> "ReplicaSet watch started"
      [] K = "service"     -> "Service watch started"
      [] K = "cronjob"     -> "CronJob watch started"

StoppedMsg(K) ==
    CASE K = "pod"         -> "Pod watch stopped"
      [] K = "deployment"  -> "Deployment watch stopped"
      [] K = "statefulset" -> "StatefulSet watch stopped"
      [] K = "daemonset"   -> "DaemonSet watch stopped"
      [] K = "replicaset"  -> "ReplicaSet watch stopped"
      [] K = "service"     -> "Service watch stopped"
      [] K = "cronjob"     -> "CronJob watch stopped"

NoActiveContextMsg == "No active context. Please set a context first."
StreamEndedMsg == "Watch stream ended"
WatchErrorMsg == "Watch error: e"

(***************************************************************************)
(* Values.                                                                 *)
(***************************************************************************)
\* Option::None for a client, a context, a namespace, a name
None == "None"
\* the contexts of the kubeconfig; a client is identified by the context it was made from
Contexts == {"ctx1", "ctx2"}
\* Option<JoinHandle> / Option<Sender> holding nothing
NoTask == 0

\* metadata of the objects a subscription delivers
Objects ==
    { [namespace |-> "ns",      name |-> "a"],
      [namespace |-> None,      name |-> "a"],
      [namespace |-> "default", name |-> "a"],
      [namespace |-> "ns",      name |-> None] }

\* mutant: an absent namespace is left empty
Key_NoDefault(obj) ==
    (IF obj.namespace = None THEN "" ELSE obj.namespace) \o "/" \o obj.name

\* format!("{}/{}", namespace.unwrap_or("default"), name)
Key(obj) ==
    (IF obj.namespace = None THEN "default" ELSE obj.namespace) \o "/" \o obj.name

\* items of the watcher stream: Some(Ok(event)) and Some(Err(e)); None is StreamEnd
Notifications ==
    [type : {"Apply", "Delete", "InitApply"}, obj : Objects]
    \cup { [type |-> "Init"], [type |-> "InitDone"], [type |-> "Err"] }

VARIABLES
    current_client,  \* AppState.current_client: None or the context of the client
    current_context, \* AppState.current_context
    kubeconfig,      \* AppState.kubeconfig: None or "loaded"
    watcher,         \* per kind: [handle, stop_tx], each NoTask or a task id
    starting,        \* start_watch calls between reading the client and locking the Watcher
    tasks,           \* spawned tasks, by id
    delivered,       \* per task: the stream items its loop has taken
    emitted,         \* per task: the emit() calls it has made
    ret,             \* result of the watch command that returned last
    calls,           \* commands invoked, by call id: where each stands among its locks
    locks            \* per RwLock of the AppState: its holders and its queue of waiters

vars == <<current_client, current_context, kubeconfig, watcher, starting,
          tasks, delivered, emitted, ret, calls, locks>>

\* the state of the registry and its tasks / the state of the locks
statevars == <<current_client, current_context, kubeconfig, watcher, starting,
               tasks, delivered, emitted, ret>>
lockvars == <<calls, locks>>

TaskIds == 1..Len(tasks)

\* a task is live from tokio::spawn until its future completes or is dropped
Live(t) == tasks[t].pc = "loop"

\* no call: a lock without a writer
NoCall == 0

\* the field of the AppState that holds the Watcher of kind K
WatcherLock(K) == K \o "_watcher"

\* the RwLock fields of the AppState
Locks == {"kubeconfig", "current_client", "current_context"} \cup {WatcherLock(K) : K \in Kinds}

\* RwLock::new: no holder, nobody waiting
LockNew == [readers |-> {}, writer |-> NoCall, queue |-> <<>>]

(***************************************************************************)
(* AppState::new and the Watcher constructors.                             *)
(***************************************************************************)
WatcherNew == [handle |-> NoTask, stop_tx |-> NoTask]

Init ==
    /\ current_client = None
    /\ current_context = None
    /\ kubeconfig = None
    /\ watcher = [K \in Kinds |-> WatcherNew]
    /\ starting = {}
    /\ tasks = <<>>
    /\ delivered = <<>>
    /\ emitted = <<>>
    /\ ret = [cmd |-> "none", ok |-> TRUE, msg |-> ""]
    /\ calls = <<>>
    /\ locks = [L \in Locks |-> LockNew]

(***************************************************************************)
(* Context commands (commands/mod.rs).                                     *)
(***************************************************************************)
\* kuboard_list_contexts: a successful load stores the kubeconfig
ListContexts(loaded) ==
    /\ kubeconfig' = IF loaded THEN "loaded" ELSE kubeconfig
    /\ UNCHANGED <<current_client, current_context, watcher, starting, tasks,
                   delivered, emitted, ret>>

\* mutant: a context switch re-binds the running tasks to the new client
SetContext_Rebinds(context_name, created) ==
    /\ IF kubeconfig # None /\ context_name \in Contexts /\ created
       THEN /\ current_client' = context_name
            /\ current_context' = context_name
            /\ tasks' = [t \in DOMAIN tasks |-> [tasks[t] EXCEPT !.client = context_name]]
       ELSE UNCHANGED <<current_client, current_context, tasks>>
    /\ UNCHANGED <<kubeconfig, watcher, starting, delivered, emitted, ret>>

\* kuboard_set_context: needs the kubeconfig and a context it names; the client may
\* fail to build; on success the client and the context name are replaced
SetContext(context_name, created) ==
    /\ IF kubeconfig # None /\ context_name \in Contexts /\ created
       THEN /\ current_client' = context_name
            /\ current_context' = context_name
       ELSE UNCHANGED <<current_client, current_context>>
    /\ UNCHANGED <<kubeconfig, watcher, starting, tasks, delivered, emitted, ret>>

(***************************************************************************)
(* Watcher::stop and Watcher::start (watch.rs), on the Watcher record w    *)
(* and the task table ts.                                                  *)
(***************************************************************************)
\* tx.try_send(()): fills the single slot unless it is full or the receiver is gone;
\* the taken sender is then dropped
SendStop(ts, t) ==
    [ts EXCEPT ![t].signal = @ \/ ts[t].pc = "loop",
               ![t].txDropped = TRUE]

\* handle.abort(): schedules the cancellation of a task that has not finished
Abort(ts, t) ==
    [ts EXCEPT ![t].abort = @ \/ ts[t].pc = "loop"]

\* mutant: stop reaches every task
StopTasks_All(w, ts) ==
    [t \in DOMAIN ts |-> [ts[t] EXCEPT !.signal = TRUE, !.txDropped = TRUE, !.abort = TRUE]]

\* mutant: stop() lets go of the task without a message, a closed channel or an abort
StopTasks_None(w, ts) == ts

\* the task table after w.stop()
StopTasks(w, ts) ==
    LET sent == IF w.stop_tx # NoTask THEN SendStop(ts, w.stop_tx) ELSE ts
    IN  IF w.handle # NoTask THEN Abort(sent, w.handle) ELSE sent

\* mutant: the handle is not taken
StopWatcher_KeepHandle(w) == [w EXCEPT !.stop_tx = NoTask]

\* mutant: the sender is not taken
StopWatcher_KeepSender(w) == [w EXCEPT !.handle = NoTask]

\* the Watcher after stop(): both Options taken
StopWatcher(w) == [handle |-> NoTask, stop_tx |-> NoTask]

\* mutant: the seen set lives in the Watcher and outlasts its tasks
NewTask_KeepSeen(K, client) ==
    [kind |-> K, client |-> client, pc |-> "loop",
     seen |-> UNION {tasks[u].seen : u \in {v \in 1..Len(tasks) : tasks[v].kind = K}},
     signal |-> FALSE, txDropped |-> FALSE, abort |-> FALSE]

\* the task tokio::spawn creates: a fresh channel, an empty seen set
NewTask(K, client) ==
    [kind |-> K, client |-> client, pc |-> "loop", seen |-> {},
     signal |-> FALSE, txDropped |-> FALSE, abort |-> FALSE]

\* mutant: the sender is not stored
StartWatcher_NoSender(w, t) == [handle |-> t, stop_tx |-> NoTask]

\* the Watcher after start(): handle and stop_tx of the task just spawned
StartWatcher(w, t) == [handle |-> t, stop_tx |-> t]

(***************************************************************************)
(* Watch commands (commands/mod.rs), the same for each kind.               *)
(***************************************************************************)
\* mutant: the missing client is not reported
StartWatchClient_NoCheck(K, maxInflight) ==
    /\ Cardinality(starting) < maxInflight
    /\ starting' = starting \cup {[kind |-> K, client |-> current_client]}
    /\ UNCHANGED <<current_client, current_context, kubeconfig, watcher, tasks,
                   delivered, emitted, ret>>

\* kuboard_start_*_watch up to drop(client_guard): the error return, or the cloned client
StartWatchClient(K, maxInflight) ==
    /\ IF current_client = None
       THEN /\ ret' = [cmd |-> "start_watch", ok |-> FALSE, msg |-> NoActiveContextMsg]
            /\ UNCHANGED starting
       ELSE /\ Cardinality(starting) < maxInflight
            /\ starting' = starting \cup {[kind |-> K, client |-> current_client]}
            /\ UNCHANGED ret
    /\ UNCHANGED <<current_client, current_context, kubeconfig, watcher, tasks, delivered, emitted>>

\* mutant: the client is read again under the Watcher's lock
StartWatchSpawn_RereadsClient(call, maxTasks) ==
    /\ call \in starting
    /\ Len(tasks) < maxTasks
    /\ LET K == call.kind
           t == Len(tasks) + 1
       IN  /\ tasks' = Append(StopTasks(watcher[K], tasks), NewTask(K, current_client))
           /\ watcher' = [watcher EXCEPT ![K] = StartWatcher(StopWatcher(@), t)]
           /\ ret' = [cmd |-> "start_watch", ok |-> TRUE, msg |-> StartedMsg(K)]
    /\ starting' = starting \ {call}
    /\ delivered' = Append(delivered, <<>>)
    /\ emitted' = Append(emitted, <<>>)
    /\ UNCHANGED <<current_client, current_context, kubeconfig>>

\* mutant: start() spawns without stopping the task the Watcher holds
StartWatchSpawn_NoStop(call, maxTasks) ==
    /\ call \in starting
    /\ Len(tasks) < maxTasks
    /\ LET K == call.kind
           t == Len(tasks) + 1
       IN  /\ tasks' = Append(tasks, NewTask(K, call.client))
           /\ watcher' = [watcher EXCEPT ![K] = StartWatcher(StopWatcher(@), t)]
           /\ ret' = [cmd |-> "start_watch", ok |-> TRUE, msg |-> StartedMsg(K)]
    /\ starting' = starting \ {call}
    /\ delivered' = Append(delivered, <<>>)
    /\ emitted' = Append(emitted, <<>>)
    /\ UNCHANGED <<current_client, current_context, kubeconfig>>

\* kuboard_start_*_watch from the Watcher's write lock on: start() and the Ok return
StartWatchSpawn(call, maxTasks) ==
    /\ call \in starting
    /\ Len(tasks) < maxTasks
    /\ LET K == call.kind
           t == Len(tasks) + 1
       IN  /\ tasks' = Append(StopTasks(watcher[K], tasks), NewTask(K, call.client))
           /\ watcher' = [watcher EXCEPT ![K] = StartWatcher(StopWatcher(@), t)]
           /\ ret' = [cmd |-> "start_watch", ok |-> TRUE, msg |-> StartedMsg(K)]
    /\ starting' = starting \ {call}
    /\ delivered' = Append(delivered, <<>>)
    /\ emitted' = Append(emitted, <<>>)
    /\ UNCHANGED <<current_client, current_context, kubeconfig>>

\* kuboard_stop_*_watch
StopWatch(K) ==
    /\ tasks' = StopTasks(watcher[K], tasks)
    /\ watcher' = [watcher EXCEPT ![K] = StopWatcher(@)]
    /\ ret' = [cmd |-> "stop_watch", ok |-> TRUE, msg |-> StoppedMsg(K)]
    /\ UNCHANGED <<current_client, current_context, kubeconfig, starting, delivered, emitted>>

\* Watcher::is_active
is_active(K) == watcher[K].handle # NoTask

\* the Watchers in the order AppState declares them, which is the order they are dropped in
KindOrder == <<"pod", "deployment", "statefulset", "daemonset", "replicaset", "service", "cronjob">>

\* no Watcher has been destroyed: the AppState is there for the commands to use
Alive == DOMAIN watcher = Kinds

\* impl Drop for the Watcher of kind K, run when the AppState is dropped: stop(), and the
\* Watcher is gone.  The AppState is dropped when no command borrows it.
DropWatcher(K) ==
    /\ starting = {}
    /\ K \in DOMAIN watcher
    /\ \A i, j \in 1..Len(KindOrder) :
         (i < j /\ KindOrder[j] = K) => KindOrder[i] \notin DOMAIN watcher
    /\ tasks' = StopTasks(watcher[K], tasks)
    /\ watcher' = [K2 \in DOMAIN watcher \ {K} |-> watcher[K2]]
    /\ UNCHANGED <<current_client, current_context, kubeconfig, starting, delivered, emitted, ret>>

(***************************************************************************)
(* The spawned task: one step per turn of its select! loop (watch.rs).     *)
(* The task runs on the runtime's workers, concurrently with the commands. *)
(* select! picks among its ready branches at random, so a task with a stop *)
(* message waiting may still take a stream item.  JoinHandle::abort only   *)
(* schedules the cancellation and returns: the task is dropped when the    *)
(* runtime next gets to it (TaskCancelled), and a task that was being      *)
(* polled meanwhile goes on with the items that are ready.                 *)
(***************************************************************************)
\* mutant: the newest event goes out ahead of the earlier ones
Emit_Prepend(log, name, payload, ok) ==
    <<[name |-> name, payload |-> payload, ok |-> ok]>> \o log

\* app_handle.emit(name, payload) under the given bus outcome, appended to the task's log
Emit(log, name, payload, ok) ==
    Append(log, [name |-> name, payload |-> payload, ok |-> ok])

\* payload of a *WatchEvent
WatchEvent(event_type, obj) == [event_type |-> event_type, obj |-> obj]

\* payload of a watch error event
ErrorPayload(text) == [error |-> text]

\* Event::Apply(obj): Added for an unseen key, Modified otherwise; the key is then seen
ApplyType(seen, obj) == IF Key(obj) \notin seen THEN "Added" ELSE "Modified"

\* mutant: the key of an upsert is not recorded
ApplySeen_NoInsert(seen, obj) == seen

ApplySeen(seen, obj) == seen \cup {Key(obj)}

\* mutant: the key of a removal stays in the set
DeleteSeen_Keep(seen, obj) == seen

\* mutant: a removal empties the set
DeleteSeen_Clear(seen, obj) == {}

\* Event::Delete(obj): the key is forgotten
DeleteSeen(seen, obj) == seen \ {Key(obj)}

\* mutant: a subscription error empties the set
SeenAfter_ErrClears(seen, n) ==
    CASE n.type = "Apply" /\ n.obj.name # None  -> ApplySeen(seen, n.obj)
      [] n.type = "Delete" /\ n.obj.name # None -> DeleteSeen(seen, n.obj)
      [] n.type = "Err" -> {}
      [] OTHER -> seen

\* mutant: an InitApply records its key
SeenAfter_InitApply(seen, n) ==
    CASE n.type \in {"Apply", "InitApply"} /\ n.obj.name # None -> ApplySeen(seen, n.obj)
      [] n.type = "Delete" /\ n.obj.name # None -> DeleteSeen(seen, n.obj)
      [] OTHER -> seen

\* the seen set after the stream item n
SeenAfter(seen, n) ==
    CASE n.type = "Apply" /\ n.obj.name # None  -> ApplySeen(seen, n.obj)
      [] n.type = "Delete" /\ n.obj.name # None -> DeleteSeen(seen, n.obj)
      [] OTHER -> seen

\* mutant: an object without a namespace is skipped like an object without a name
LogAfter_SkipNoNamespace(K, seen, log, n, ok) ==
    CASE n.type = "Apply" /\ n.obj.name # None /\ n.obj.namespace # None ->
            Emit(log, WatchEventName(K), WatchEvent(ApplyType(seen, n.obj), n.obj), ok)
      [] n.type = "Delete" /\ n.obj.name # None /\ n.obj.namespace # None ->
            Emit(log, WatchEventName(K), WatchEvent("Deleted", n.obj), ok)
      [] n.type = "Err" ->
            Emit(log, WatchErrorName(K), ErrorPayload(WatchErrorMsg), ok)
      [] OTHER -> log

\* mutant: the copy for cron jobs classifies every upsert as Added
LogAfter_CronJobAdded(K, seen, log, n, ok) ==
    CASE n.type = "Apply" /\ n.obj.name # None ->
            Emit(log, WatchEventName(K),
                 WatchEvent(IF K = "cronjob" THEN "Added" ELSE ApplyType(seen, n.obj), n.obj), ok)
      [] n.type = "Delete" /\ n.obj.name # None ->
            Emit(log, WatchEventName(K), WatchEvent("Deleted", n.obj), ok)
      [] n.type = "Err" ->
            Emit(log, WatchErrorName(K), ErrorPayload(WatchErrorMsg), ok)
      [] OTHER -> log

\* the task's emit log after the stream item n
LogAfter(K, seen, log, n, ok) ==
    CASE n.type = "Apply" /\ n.obj.name # None ->
            Emit(log, WatchEventName(K), WatchEvent(ApplyType(seen, n.obj), n.obj), ok)
      [] n.type = "Delete" /\ n.obj.name # None ->
            Emit(log, WatchEventName(K), WatchEvent("Deleted", n.obj), ok)
      [] n.type = "Err" ->
            Emit(log, WatchErrorName(K), ErrorPayload(WatchErrorMsg), ok)
      [] OTHER -> log

\* stream items taken so far, all tasks together
Taken == LET RECURSIVE Sum(_)
             Sum(i) == IF i = 0 THEN 0 ELSE Len(delivered[i]) + Sum(i - 1)
         IN  Sum(Len(delivered))

\* mutant: the seen set is updated only when emit() succeeds
TaskItem_SeenOnEmitOk(t, n, ok, maxNotifs) ==
    /\ tasks[t].pc = "loop"
    /\ Taken < maxNotifs
    /\ tasks' = [tasks EXCEPT ![t].seen = IF ok THEN SeenAfter(@, n) ELSE @]
    /\ delivered' = [delivered EXCEPT ![t] = Append(@, n)]
    /\ emitted' = [emitted EXCEPT ![t] = LogAfter(tasks[t].kind, tasks[t].seen, @, n, ok)]
    /\ UNCHANGED <<current_client, current_context, kubeconfig, watcher, starting, ret>>

\* mutant: the loop is left after a subscription error
TaskItem_BreakOnErr(t, n, ok, maxNotifs) ==
    /\ tasks[t].pc = "loop"
    /\ Taken < maxNotifs
    /\ tasks' = [tasks EXCEPT ![t].seen = SeenAfter(@, n),
                              ![t].pc = IF n.type = "Err" THEN "completed" ELSE @]
    /\ delivered' = [delivered EXCEPT ![t] = Append(@, n)]
    /\ emitted' = [emitted EXCEPT ![t] = LogAfter(tasks[t].kind, tasks[t].seen, @, n, ok)]
    /\ UNCHANGED <<current_client, current_context, kubeconfig, watcher, starting, ret>>

\* mutant: a failed emit() ends the loop
TaskItem_BreakOnEmitFail(t, n, ok, maxNotifs) ==
    /\ tasks[t].pc = "loop"
    /\ Taken < maxNotifs
    /\ tasks' = [tasks EXCEPT ![t].seen = SeenAfter(@, n),
                              ![t].pc = IF ~ok /\ n.type \in {"Apply", "Delete", "Err"} THEN "completed" ELSE @]
    /\ delivered' = [delivered EXCEPT ![t] = Append(@, n)]
    /\ emitted' = [emitted EXCEPT ![t] = LogAfter(tasks[t].kind, tasks[t].seen, @, n, ok)]
    /\ UNCHANGED <<current_client, current_context, kubeconfig, watcher, starting, ret>>

\* select! takes the stream branch with Some(item)
TaskItem(t, n, ok, maxNotifs) ==
    /\ tasks[t].pc = "loop"
    /\ Taken < maxNotifs
    /\ tasks' = [tasks EXCEPT ![t].seen = SeenAfter(@, n)]
    /\ delivered' = [delivered EXCEPT ![t] = Append(@, n)]
    /\ emitted' = [emitted EXCEPT ![t] = LogAfter(tasks[t].kind, tasks[t].seen, @, n, ok)]
    /\ UNCHANGED <<current_client, current_context, kubeconfig, watcher, starting, ret>>

\* mutant: the loop goes on after the end of the stream
TaskStreamEnd_NoBreak(t, ok, maxNotifs) ==
    /\ tasks[t].pc = "loop"
    /\ Taken < maxNotifs
    /\ delivered' = [delivered EXCEPT ![t] = Append(@, [type |-> "End"])]
    /\ emitted' = [emitted EXCEPT ![t] =
                     Emit(@, WatchErrorName(tasks[t].kind), ErrorPayload(StreamEndedMsg), ok)]
    /\ UNCHANGED <<current_client, current_context, kubeconfig, watcher, starting, tasks, ret>>

\* mutant: the task that leaves its loop resets the Watcher that holds it
TaskStreamEnd_ClearsWatcher(t, ok, maxNotifs) ==
    /\ tasks[t].pc = "loop"
    /\ Taken < maxNotifs
    /\ tasks' = [tasks EXCEPT ![t].pc = "completed"]
    /\ delivered' = [delivered EXCEPT ![t] = Append(@, [type |-> "End"])]
    /\ emitted' = [emitted EXCEPT ![t] =
                     Emit(@, WatchErrorName(tasks[t].kind), ErrorPayload(StreamEndedMsg), ok)]
    /\ watcher' = [K \in DOMAIN watcher |->
                     IF watcher[K].handle = t THEN WatcherNew ELSE watcher[K]]
    /\ UNCHANGED <<current_client, current_context, kubeconfig, starting, ret>>

\* select! takes the stream branch with None: the stream-ended error event, then break
TaskStreamEnd(t, ok, maxNotifs) ==
    /\ tasks[t].pc = "loop"
    /\ Taken < maxNotifs
    /\ tasks' = [tasks EXCEPT ![t].pc = "completed"]
    /\ delivered' = [delivered EXCEPT ![t] = Append(@, [type |-> "End"])]
    /\ emitted' = [emitted EXCEPT ![t] =
                     Emit(@, WatchErrorName(tasks[t].kind), ErrorPayload(StreamEndedMsg), ok)]
    /\ UNCHANGED <<current_client, current_context, kubeconfig, watcher, starting, ret>>

\* select! takes the stop_rx.recv() branch (a message, or None once the sender is dropped): break
TaskStopped(t) ==
    /\ tasks[t].pc = "loop"
    /\ tasks[t].signal \/ tasks[t].txDropped
    /\ tasks' = [tasks EXCEPT ![t].pc = "completed", ![t].signal = FALSE]
    /\ UNCHANGED <<current_client, current_context, kubeconfig, watcher, starting,
                   delivered, emitted, ret>>

\* the runtime drops a task whose abort was requested
TaskCancelled(t) ==
    /\ tasks[t].pc = "loop"
    /\ tasks[t].abort
    /\ tasks' = [tasks EXCEPT ![t].pc = "cancelled"]
    /\ UNCHANGED <<current_client, current_context, kubeconfig, watcher, starting,
                   delivered, emitted, ret>>

(***************************************************************************)
(* Specifications.  Spec: the lifecycle of the Watchers of two kinds under *)
(* every interleaving of commands and tasks, with one context to select,   *)
(* short streams over one object and a bus that accepts every event.       *)
(* SpecTask: one task of any of the seven kinds fed every stream of up to  *)
(* TaskNotifs items.                                                       *)
(***************************************************************************)
LifecycleKinds == {"pod", "cronjob"}

LifecycleItems ==
    { [type |-> "Apply",  obj |-> [namespace |-> "ns", name |-> "a"]],
      [type |-> "Delete", obj |-> [namespace |-> "ns", name |-> "a"]],
      [type |-> "Err"] }

\* the context names kuboard_set_context is called with
LifecycleContexts == {"ctx1", "missing"}

\* the outcomes of emit()
LifecycleBus == {TRUE}

Next ==
    \/ \E loaded \in BOOLEAN : ListContexts(loaded) /\ UNCHANGED lockvars
    \/ \E c \in LifecycleContexts, created \in BOOLEAN : SetContext(c, created) /\ UNCHANGED lockvars
    \/ \E K \in LifecycleKinds : StartWatchClient(K, MaxInflight) /\ UNCHANGED lockvars
    \/ \E call \in starting : StartWatchSpawn(call, MaxTasks) /\ UNCHANGED lockvars
    \/ \E K \in LifecycleKinds : StopWatch(K) /\ UNCHANGED lockvars
    \/ \E t \in TaskIds, n \in LifecycleItems, ok \in LifecycleBus : TaskItem(t, n, ok, MaxNotifs) /\ UNCHANGED lockvars
    \/ \E t \in TaskIds, ok \in LifecycleBus : TaskStreamEnd(t, ok, MaxNotifs) /\ UNCHANGED lockvars
    \/ \E t \in TaskIds : TaskStopped(t) /\ UNCHANGED lockvars
    \/ \E t \in TaskIds : TaskCancelled(t) /\ UNCHANGED lockvars

Spec == Init /\ [][Next]_vars

NextTask ==
    \/ tasks = <<>> /\ starting = {} /\ ListContexts(TRUE) /\ UNCHANGED lockvars
    \/ tasks = <<>> /\ starting = {} /\ SetContext("ctx1", TRUE) /\ UNCHANGED lockvars
    \/ \E K \in Kinds : current_client # None /\ tasks = <<>> /\ StartWatchClient(K, 1) /\ UNCHANGED lockvars
    \/ \E call \in starting : StartWatchSpawn(call, 1) /\ UNCHANGED lockvars
    \/ \E t \in TaskIds, n \in Notifications : TaskItem(t, n, TRUE, TaskNotifs) /\ UNCHANGED lockvars
    \/ \E t \in TaskIds : TaskStreamEnd(t, TRUE, TaskNotifs) /\ UNCHANGED lockvars

SpecTask == Init /\ [][NextTask]_vars

(***************************************************************************)
(* SpecDrop: the lifecycle of Spec, with the AppState dropped at any point *)
(* at which no command runs; the tasks go on until they end.               *)
(***************************************************************************)
NextDrop ==
    \/ Alive /\ tasks = <<>> /\ ListContexts(TRUE) /\ UNCHANGED lockvars
    \/ Alive /\ tasks = <<>> /\ SetContext("ctx1", TRUE) /\ UNCHANGED lockvars
    \/ \E K \in LifecycleKinds : Alive /\ current_client # None /\ StartWatchClient(K, MaxInflight) /\ UNCHANGED lockvars
    \/ \E call \in starting : Alive /\ StartWatchSpawn(call, MaxTasks) /\ UNCHANGED lockvars
    \/ \E K \in LifecycleKinds : Alive /\ StopWatch(K) /\ UNCHANGED lockvars
    \/ \E t \in TaskIds, n \in LifecycleItems : TaskItem(t, n, TRUE, MaxNotifs) /\ UNCHANGED lockvars
    \/ \E t \in TaskIds : TaskStreamEnd(t, TRUE, MaxNotifs) /\ UNCHANGED lockvars
    \/ \E t \in TaskIds : TaskStopped(t) /\ UNCHANGED lockvars
    \/ \E t \in TaskIds : TaskCancelled(t) /\ UNCHANGED lockvars
    \/ \E K \in Kinds : DropWatcher(K) /\ UNCHANGED lockvars

SpecDrop == Init /\ [][NextDrop]_vars

(***************************************************************************)
(* SpecFair: the lifecycle of Spec under the scheduling of the runtime: a  *)
(* task whose stop branch is ready is polled and takes it, and a task      *)
(* whose abort was requested is dropped.  Nothing is assumed of the        *)
(* subscriptions: a stream may stay silent for ever.                       *)
(***************************************************************************)
FairItems == {n \in LifecycleItems : n.type = "Apply"}

NextFair ==
    \/ tasks = <<>> /\ ListContexts(TRUE) /\ UNCHANGED lockvars
    \/ tasks = <<>> /\ SetContext("ctx1", TRUE) /\ UNCHANGED lockvars
    \/ \E K \in LifecycleKinds : current_client # None /\ StartWatchClient(K, 1) /\ UNCHANGED lockvars
    \/ \E call \in starting : StartWatchSpawn(call, MaxTasks) /\ UNCHANGED lockvars
    \/ \E K \in LifecycleKinds : StopWatch(K) /\ UNCHANGED lockvars
    \/ \E t \in TaskIds, n \in FairItems : TaskItem(t, n, TRUE, FairNotifs) /\ UNCHANGED lockvars
    \/ \E t \in TaskIds : TaskStreamEnd(t, TRUE, FairNotifs) /\ UNCHANGED lockvars
    \/ \E t \in TaskIds : TaskStopped(t) /\ UNCHANGED lockvars
    \/ \E t \in TaskIds : TaskCancelled(t) /\ UNCHANGED lockvars

SpecFair ==
    /\ Init /\ [][NextFair]_vars
    /\ \A t \in 1..MaxTasks : WF_vars(t \in TaskIds /\ TaskStopped(t) /\ UNCHANGED lockvars)
    /\ \A t \in 1..MaxTasks : WF_vars(t \in TaskIds /\ TaskCancelled(t) /\ UNCHANGED lockvars)

(***************************************************************************)
(* SpecRace: start_watch and stop_watch calls that overlap.  Several       *)
(* start_watch calls have read the client and wait for the write lock of   *)
(* their Watcher while the context is switched and other calls are served; *)
(* the calls of one kind are told apart by the client they read.           *)
(***************************************************************************)
NextRace ==
    \/ tasks = <<>> /\ ListContexts(TRUE) /\ UNCHANGED lockvars
    \/ \E c \in Contexts : SetContext(c, TRUE) /\ UNCHANGED lockvars
    \/ \E K \in LifecycleKinds : current_client # None /\ StartWatchClient(K, RaceInflight) /\ UNCHANGED lockvars
    \/ \E call \in starting : StartWatchSpawn(call, MaxTasks) /\ UNCHANGED lockvars
    \/ \E K \in LifecycleKinds : StopWatch(K) /\ UNCHANGED lockvars
    \/ \E t \in TaskIds : TaskStreamEnd(t, TRUE, MaxNotifs) /\ UNCHANGED lockvars
    \/ \E t \in TaskIds : TaskStopped(t) /\ UNCHANGED lockvars
    \/ \E t \in TaskIds : TaskCancelled(t) /\ UNCHANGED lockvars

SpecRace == Init /\ [][NextRace]_vars

(***************************************************************************)
(* SpecBus: one task of either lifecycle kind fed every stream of up to    *)
(* BusNotifs items, each emit() accepted or refused by the bus.            *)
(***************************************************************************)
\* the outcomes of emit(): Ok(()) and Err(e)
BusOutcomes == BOOLEAN

NextBus ==
    \/ tasks = <<>> /\ starting = {} /\ ListContexts(TRUE) /\ UNCHANGED lockvars
    \/ tasks = <<>> /\ starting = {} /\ SetContext("ctx1", TRUE) /\ UNCHANGED lockvars
    \/ \E K \in LifecycleKinds : current_client # None /\ tasks = <<>> /\ StartWatchClient(K, 1) /\ UNCHANGED lockvars
    \/ \E call \in starting : StartWatchSpawn(call, 1) /\ UNCHANGED lockvars
    \/ \E t \in TaskIds, n \in Notifications, ok \in BusOutcomes : TaskItem(t, n, ok, BusNotifs) /\ UNCHANGED lockvars
    \/ \E t \in TaskIds, ok \in BusOutcomes : TaskStreamEnd(t, ok, BusNotifs) /\ UNCHANGED lockvars

SpecBus == Init /\ [][NextBus]_vars

(***************************************************************************)
(* The commands step by step over the locks of the AppState.  Every field  *)
(* is an Arc<tokio::sync::RwLock>, which serves its waiters in the order   *)
(* they came: a read() or write() joins the queue of its lock, and the     *)
(* head of the queue gets the lock once no holder excludes it.  A call     *)
(* stands at "load" (kuboard_load_kubeconfig), at "wait" (in the queue of  *)
(* call.lock), at "hold" (owning the guard of call.lock) or at "returned". *)
(***************************************************************************)
\* read().await or write().await begins: the call c joins the queue of the lock L
Request(lk, L, c, mode) == [lk EXCEPT ![L].queue = Append(@, [call |-> c, mode |-> mode])]

\* the guard of the call c on the lock L is dropped
Release(lk, L, c) ==
    [lk EXCEPT ![L].readers = @ \ {c}, ![L].writer = IF @ = c THEN NoCall ELSE @]

\* the call c moves on: to the queue of the lock L, or out of the command
Waiting(cs, c, L) == [cs EXCEPT ![c].pc = "wait", ![c].lock = L]
Returned(cs, c) == [cs EXCEPT ![c].pc = "returned", ![c].lock = None]

NewCall(cmd, arg, pc, L) == [cmd |-> cmd, arg |-> arg, pc |-> pc, lock |-> L, client |-> None]

\* the call c owns the guard it was waiting for
Holds(c, cmd, L) ==
    /\ c \in DOMAIN calls
    /\ calls[c].cmd = cmd /\ calls[c].pc = "hold" /\ calls[c].lock = L

\* the lock is granted to the head of its queue: a writer once nobody holds the lock, a
\* reader once no writer holds it
Acquired(c) ==
    /\ c \in DOMAIN calls
    /\ calls[c].pc = "wait"
    /\ LET L == calls[c].lock
           q == locks[L].queue
       IN  /\ q # <<>> /\ Head(q).call = c
           /\ locks[L].writer = NoCall
           /\ Head(q).mode = "W" => locks[L].readers = {}
           /\ locks' = [locks EXCEPT ![L].queue = Tail(@),
                                     ![L].readers = IF Head(q).mode = "R" THEN @ \cup {c} ELSE @,
                                     ![L].writer = IF Head(q).mode = "W" THEN c ELSE @]
    /\ calls' = [calls EXCEPT ![c].pc = "hold"]
    /\ UNCHANGED statevars

\* kuboard_list_contexts is invoked: it loads the kubeconfig first
InvokeListContexts(maxCalls) ==
    /\ Len(calls) < maxCalls
    /\ calls' = Append(calls, NewCall("list_contexts", None, "load", None))
    /\ UNCHANGED <<locks, statevars>>

\* kuboard_load_kubeconfig().await: Err is returned, or the kubeconfig is to be stored
ListLoad(c, loaded) ==
    /\ c \in DOMAIN calls
    /\ calls[c].cmd = "list_contexts" /\ calls[c].pc = "load"
    /\ IF loaded
       THEN /\ calls' = Waiting(calls, c, "kubeconfig")
            /\ locks' = Request(locks, "kubeconfig", c, "W")
       ELSE /\ calls' = Returned(calls, c)
            /\ UNCHANGED locks
    /\ UNCHANGED statevars

\* *state.kubeconfig.write().await = Some(config): the guard goes with the statement; a
\* kubeconfig that names a current context has the command read state.current_context
ListStore(c, hasCurrent) ==
    /\ Holds(c, "list_contexts", "kubeconfig")
    /\ ListContexts(TRUE)
    /\ IF hasCurrent
       THEN /\ calls' = Waiting(calls, c, "current_context")
            /\ locks' = Request(Release(locks, "kubeconfig", c), "current_context", c, "R")
       ELSE /\ calls' = Returned(calls, c)
            /\ locks' = Release(locks, "kubeconfig", c)

\* the read guard on current_context is dropped unused and the contexts are returned
ListDone(c) ==
    /\ Holds(c, "list_contexts", "current_context")
    /\ calls' = Returned(calls, c)
    /\ locks' = Release(locks, "current_context", c)
    /\ UNCHANGED statevars

\* kuboard_set_context is invoked: state.kubeconfig.read().await
InvokeSetContext(context_name, maxCalls) ==
    /\ Len(calls) < maxCalls
    /\ calls' = Append(calls, NewCall("set_context", context_name, "wait", "kubeconfig"))
    /\ locks' = Request(locks, "kubeconfig", Len(calls) + 1, "R")
    /\ UNCHANGED statevars

\* under the kubeconfig guard: no kubeconfig, an unknown context or a client that cannot be
\* built returns Err; otherwise state.current_client.write().await
SetContextCheck(c, created) ==
    /\ Holds(c, "set_context", "kubeconfig")
    /\ IF kubeconfig # None /\ calls[c].arg \in Contexts /\ created
       THEN /\ calls' = Waiting(calls, c, "current_client")
            /\ locks' = Request(locks, "current_client", c, "W")
       ELSE /\ calls' = Returned(calls, c)
            /\ locks' = Release(locks, "kubeconfig", c)
    /\ UNCHANGED statevars

\* *state.current_client.write().await = Some(client), then
\* state.current_context.write().await
SetContextClient(c) ==
    /\ Holds(c, "set_context", "current_client")
    /\ current_client' = calls[c].arg
    /\ calls' = Waiting(calls, c, "current_context")
    /\ locks' = Request(Release(locks, "current_client", c), "current_context", c, "W")
    /\ UNCHANGED <<current_context, kubeconfig, watcher, starting, tasks, delivered, emitted, ret>>

\* *state.current_context.write().await = Some(name) and the Ok return, which drops the
\* kubeconfig guard
SetContextDone(c) ==
    /\ Holds(c, "set_context", "current_context")
    /\ current_context' = calls[c].arg
    /\ calls' = Returned(calls, c)
    /\ locks' = Release(Release(locks, "current_context", c), "kubeconfig", c)
    /\ UNCHANGED <<current_client, kubeconfig, watcher, starting, tasks, delivered, emitted, ret>>

\* a start_watch of kind K is between its invocation and its return
StartInFlight(K) ==
    \E c \in DOMAIN calls :
        calls[c].cmd = "start_watch" /\ calls[c].arg = K /\ calls[c].pc # "returned"

\* kuboard_start_*_watch is invoked: state.current_client.read().await
InvokeStartWatch(K, maxCalls) ==
    /\ Len(calls) < maxCalls
    /\ ~StartInFlight(K)
    /\ calls' = Append(calls, NewCall("start_watch", K, "wait", "current_client"))
    /\ locks' = Request(locks, "current_client", Len(calls) + 1, "R")
    /\ UNCHANGED statevars

\* mutant: the client guard is kept while the Watcher is locked
StartClient_KeepsGuard(c, maxInflight) ==
    /\ Holds(c, "start_watch", "current_client")
    /\ StartWatchClient(calls[c].arg, maxInflight)
    /\ IF current_client = None
       THEN /\ calls' = Returned(calls, c)
            /\ locks' = Release(locks, "current_client", c)
       ELSE /\ calls' = [Waiting(calls, c, WatcherLock(calls[c].arg))
                            EXCEPT ![c].client = current_client]
            /\ locks' = Request(locks, WatcherLock(calls[c].arg), c, "W")

\* under the client guard: the error return, or the clone of the client; drop(client_guard),
\* then state.<kind>_watcher.write().await
StartClient(c, maxInflight) ==
    /\ Holds(c, "start_watch", "current_client")
    /\ StartWatchClient(calls[c].arg, maxInflight)
    /\ IF current_client = None
       THEN /\ calls' = Returned(calls, c)
            /\ locks' = Release(locks, "current_client", c)
       ELSE /\ calls' = [Waiting(calls, c, WatcherLock(calls[c].arg))
                            EXCEPT ![c].client = current_client]
            /\ locks' = Request(Release(locks, "current_client", c),
                                WatcherLock(calls[c].arg), c, "W")

\* under the Watcher's guard: start() and the Ok return
StartSpawn(c, maxTasks) ==
    /\ \E K \in Kinds :
         /\ Holds(c, "start_watch", WatcherLock(K))
         /\ StartWatchSpawn([kind |-> K, client |-> calls[c].client], maxTasks)
         /\ locks' = Release(locks, WatcherLock(K), c)
    /\ calls' = Returned(calls, c)

\* mutant: every stop command locks the Watcher of the pods
InvokeStopWatch_PodLock(K, maxCalls) ==
    /\ Len(calls) < maxCalls
    /\ calls' = Append(calls, NewCall("stop_watch", K, "wait", WatcherLock("pod")))
    /\ locks' = Request(locks, WatcherLock("pod"), Len(calls) + 1, "W")
    /\ UNCHANGED statevars

\* kuboard_stop_*_watch is invoked: state.<kind>_watcher.write().await
InvokeStopWatch(K, maxCalls) ==
    /\ Len(calls) < maxCalls
    /\ calls' = Append(calls, NewCall("stop_watch", K, "wait", WatcherLock(K)))
    /\ locks' = Request(locks, WatcherLock(K), Len(calls) + 1, "W")
    /\ UNCHANGED statevars

\* under the Watcher's guard: stop() and the Ok return
StopDone(c) ==
    /\ \E K \in Kinds :
         /\ Holds(c, "stop_watch", WatcherLock(K))
         /\ StopWatch(K)
         /\ locks' = Release(locks, WatcherLock(K), c)
    /\ calls' = Returned(calls, c)

(***************************************************************************)
(* SpecLocks: up to LockCalls commands, invoked at any time and in any     *)
(* order, each taking its steps whenever its locks allow; the scheduler    *)
(* runs a call that can take a step as long as there is one.  A kind has   *)
(* one start_watch in flight at a time.                                    *)
(* Before the first of them the kubeconfig may have been loaded and a      *)
(* context selected by commands that ran alone.                            *)
(***************************************************************************)
\* the context kuboard_set_context is called with
LockContexts == {"ctx1"}

\* a step of the call c
CallStep(c) ==
    \/ Acquired(c)
    \/ \E loaded \in BOOLEAN : ListLoad(c, loaded)
    \/ \E hasCurrent \in BOOLEAN : ListStore(c, hasCurrent)
    \/ ListDone(c)
    \/ \E created \in BOOLEAN : SetContextCheck(c, created)
    \/ SetContextClient(c)
    \/ SetContextDone(c)
    \/ StartClient(c, LockCalls)
    \/ StartSpawn(c, LockCalls)
    \/ StopDone(c)

NextLocks ==
    \/ calls = <<>> /\ ListContexts(TRUE) /\ UNCHANGED lockvars
    \/ calls = <<>> /\ SetContext("ctx1", TRUE) /\ UNCHANGED lockvars
    \/ InvokeListContexts(LockCalls)
    \/ \E name \in LockContexts : InvokeSetContext(name, LockCalls)
    \/ \E K \in LifecycleKinds : InvokeStartWatch(K, LockCalls)
    \/ \E K \in LifecycleKinds : InvokeStopWatch(K, LockCalls)
    \/ \E c \in DOMAIN calls : Acquired(c)
    \/ \E c \in DOMAIN calls, loaded \in BOOLEAN : ListLoad(c, loaded)
    \/ \E c \in DOMAIN calls, hasCurrent \in BOOLEAN : ListStore(c, hasCurrent)
    \/ \E c \in DOMAIN calls : ListDone(c)
    \/ \E c \in DOMAIN calls, created \in BOOLEAN : SetContextCheck(c, created)
    \/ \E c \in DOMAIN calls : SetContextClient(c)
    \/ \E c \in DOMAIN calls : SetContextDone(c)
    \/ \E c \in DOMAIN calls : StartClient(c, LockCalls)
    \/ \E c \in DOMAIN calls : StartSpawn(c, LockCalls)
    \/ \E c \in DOMAIN calls : StopDone(c)

SpecLocks ==
    /\ Init /\ [][NextLocks]_vars
    /\ WF_vars(\E c \in DOMAIN calls : CallStep(c))

(***************************************************************************)
(* SpecKinds: the start_watch and stop_watch commands of two kinds step by *)
(* step over their locks, invoked once a context is selected, next to the  *)
(* tasks they spawn, which take items, reach the end of their stream, are  *)
(* stopped and are cancelled.                                              *)
(***************************************************************************)
NextKinds ==
    \/ calls = <<>> /\ ListContexts(TRUE) /\ UNCHANGED lockvars
    \/ calls = <<>> /\ SetContext("ctx1", TRUE) /\ UNCHANGED lockvars
    \/ \E K \in LifecycleKinds : current_client # None /\ InvokeStartWatch(K, LockCalls)
    \/ \E K \in LifecycleKinds : current_client # None /\ InvokeStopWatch(K, LockCalls)
    \/ \E c \in DOMAIN calls : Acquired(c)
    \/ \E c \in DOMAIN calls : StartClient(c, LockCalls)
    \/ \E c \in DOMAIN calls : StartSpawn(c, LockCalls)
    \/ \E c \in DOMAIN calls : StopDone(c)
    \/ \E t \in TaskIds, n \in LifecycleItems : TaskItem(t, n, TRUE, KindNotifs) /\ UNCHANGED lockvars
    \/ \E t \in TaskIds : TaskStreamEnd(t, TRUE, KindNotifs) /\ UNCHANGED lockvars
    \/ \E t \in TaskIds : TaskStopped(t) /\ UNCHANGED lockvars
    \/ \E t \in TaskIds : TaskCancelled(t) /\ UNCHANGED lockvars

SpecKinds == Init /\ [][NextKinds]_vars

(***************************************************************************)
(* Vocabulary of the properties: histories of one task.                    *)
(***************************************************************************)
Last(q) == q[Len(q)]

\* an upsert or a removal that carries a key
IsUpsert(n) == n.type = "Apply" /\ n.obj.name # None
IsRemoval(n) == n.type = "Delete" /\ n.obj.name # None

\* positions before i in the history d that hold an upsert or a removal of key k
PriorOps(d, i, k) ==
    {j \in 1..(i - 1) : (IsUpsert(d[j]) \/ IsRemoval(d[j])) /\ Key(d[j].obj) = k}

SetMax(S) == CHOOSE m \in S : \A j \in S : j <= m

\* no upsert of the key of d[i] since the start or since the latest removal of that key
Fresh(d, i) ==
    LET P == PriorOps(d, i, Key(d[i].obj))
    IN  P = {} \/ IsRemoval(d[SetMax(P)])

IsWatchEvent(e) == "event_type" \in DOMAIN e.payload
IsClassified(e) == IsWatchEvent(e) /\ e.payload.event_type \in {"Added", "Modified"}
IsDeleted(e) == IsWatchEvent(e) /\ e.payload.event_type = "Deleted"
IsErrorEvent(e) == "error" \in DOMAIN e.payload

\* number of positions of S up to i
Rank(S, i) == Cardinality({j \in S : j <= i})

\* the classifications of a log, in order
Types(log) == [i \in 1..Len(log) |->
                 IF IsWatchEvent(log[i]) THEN log[i].payload.event_type ELSE "error"]

\* the history d is Upsert, Upsert, Remove, Upsert of one key
IsScenarioC1(d) ==
    /\ Len(d) = 4
    /\ IsUpsert(d[1]) /\ IsUpsert(d[2]) /\ IsRemoval(d[3]) /\ IsUpsert(d[4])
    /\ \A i \in 2..4 : Key(d[i].obj) = Key(d[1].obj)

(***************************************************************************)
(* C1: in every task of every kind, the upserts that carry a key are       *)
(* classified one by one and in order: Added when no upsert of the key was *)
(* processed since the task started or since the latest removal of the     *)
(* key, Modified otherwise; Upsert, Upsert, Remove, Upsert of one key      *)
(* yields Added, Modified, Deleted, Added.                                 *)
(***************************************************************************)
C1_AddedIffFresh ==
    \A t \in TaskIds :
        LET d == delivered[t]
            S == {i \in 1..Len(d) : IsUpsert(d[i])}
            E == SelectSeq(emitted[t], IsClassified)
        IN  /\ Len(E) = Cardinality(S)
            /\ \A i \in S :
                 E[Rank(S, i)].payload =
                     [event_type |-> IF Fresh(d, i) THEN "Added" ELSE "Modified",
                      obj |-> d[i].obj]
            /\ IsScenarioC1(d) =>
                 Types(emitted[t]) = <<"Added", "Modified", "Deleted", "Added">>

C1_Witness ==
    \E t \in TaskIds :
        /\ IsScenarioC1(delivered[t])
        /\ Types(emitted[t]) = <<"Added", "Modified", "Deleted", "Added">>

(***************************************************************************)
(* C2: every removal that carries a key is emitted as Deleted, one event   *)
(* per removal and in order, whether or not the key was in the seen set;   *)
(* right after a removal its key is not in the seen set.                   *)
(***************************************************************************)
C2_RemovalDeleted ==
    \A t \in TaskIds :
        LET d == delivered[t]
            S == {i \in 1..Len(d) : IsRemoval(d[i])}
            E == SelectSeq(emitted[t], IsDeleted)
        IN  /\ Len(E) = Cardinality(S)
            /\ \A i \in S : E[Rank(S, i)].payload.obj = d[i].obj
            /\ (d # <<>> /\ IsRemoval(Last(d))) =>
                 /\ Key(Last(d).obj) \notin tasks[t].seen
                 /\ IsDeleted(Last(emitted[t]))

\* a removal of a key never upserted, and a removal of the same key once upserted
C2_Witness ==
    \E t \in TaskIds :
        LET d == delivered[t]
        IN  /\ Len(d) = 3
            /\ IsRemoval(d[1]) /\ IsUpsert(d[2]) /\ IsRemoval(d[3])
            /\ Key(d[2].obj) = Key(d[1].obj) /\ Key(d[3].obj) = Key(d[1].obj)
            /\ Types(emitted[t]) = <<"Deleted", "Added", "Deleted">>
            /\ tasks[t].seen = {}

(***************************************************************************)
(* C3: for every kind at most one task spawned by its Watcher is live at   *)
(* any time, so a start() on a running Watcher spawns only once the prior  *)
(* task has terminated.  (stop() only requests the end of the prior task;  *)
(* start() does not wait for it.)                                          *)
(***************************************************************************)
LiveTasks(K) == {t \in TaskIds : tasks[t].kind = K /\ Live(t)}

C3_AtMostOneLiveTask == \A K \in Kinds : Cardinality(LiveTasks(K)) <= 1

(***************************************************************************)
(* C4: a start_watch that finds no active client returns the "No active    *)
(* context" error and changes nothing else: no call proceeds to the        *)
(* Watcher, no task is spawned, no Watcher changes, nothing is emitted;    *)
(* and that error is returned only when no client is set.                  *)
(***************************************************************************)
NoActiveContext == [cmd |-> "start_watch", ok |-> FALSE, msg |-> NoActiveContextMsg]

C4_NoClientNoStart ==
    [][ /\ \A K \in Kinds :
             (current_client = None /\ StartWatchClient(K, MaxInflight)) =>
                 /\ ret' = NoActiveContext
                 /\ UNCHANGED <<watcher, starting, tasks, delivered, emitted>>
        /\ (ret' # ret /\ ret' = NoActiveContext) =>
                 /\ current_client = None
                 /\ UNCHANGED <<watcher, starting, tasks, delivered, emitted>>
        /\ \A call \in starting' : call.client # None
        /\ \A t \in 1..Len(tasks') : tasks'[t].client # None
      ]_vars

C4_Witness ==
    /\ ret = NoActiveContext
    /\ current_client = None
    /\ tasks = <<>> /\ starting = {}
    /\ \A K \in Kinds : watcher[K] = WatcherNew

(***************************************************************************)
(* C5: a start_watch that finds a client proceeds to the Watcher and       *)
(* returns success, leaving the Watcher of its kind with the handle and    *)
(* the sender of a task just spawned, whatever the Watcher held before;    *)
(* the Watcher keeps both when the stream later fails or ends; an error is *)
(* returned by start_watch exactly when no client is set.                  *)
(***************************************************************************)
Started(K) == [cmd |-> "start_watch", ok |-> TRUE, msg |-> StartedMsg(K)]

RunningAfterStart ==
    (ret.cmd = "start_watch" /\ ret.ok) =>
        \A K \in Kinds :
            ret = Started(K) =>
                /\ is_active(K)
                /\ watcher[K].stop_tx = watcher[K].handle

C5_StartSucceeds ==
    [][ /\ \A call \in starting :
             StartWatchSpawn(call, MaxTasks) =>
                 /\ ret' = Started(call.kind)
                 /\ watcher'[call.kind].handle = Len(tasks')
                 /\ watcher'[call.kind].stop_tx = Len(tasks')
                 /\ Len(tasks') = Len(tasks) + 1
                 /\ tasks'[Len(tasks')].pc = "loop"
                 /\ tasks'[Len(tasks')].kind = call.kind
        /\ \A K \in Kinds :
             (tasks' = tasks /\ StartWatchClient(K, MaxInflight)) =>
                 /\ current_client = None => ret' = NoActiveContext
                 /\ current_client # None =>
                      /\ ret' = ret
                      /\ [kind |-> K, client |-> current_client] \in starting'
        /\ (ret' # ret /\ ret'.cmd = "start_watch" /\ ~ret'.ok) => current_client = None
        /\ RunningAfterStart'
      ]_vars

\* a start on a Watcher whose task had exited when its stream ended
C5_Witness ==
    \E K \in Kinds, t1, t2 \in TaskIds :
        /\ t1 < t2
        /\ tasks[t1].kind = K /\ tasks[t2].kind = K
        /\ tasks[t1].pc = "completed" /\ ~tasks[t1].abort /\ ~tasks[t1].signal
        /\ delivered[t1] # <<>> /\ Last(delivered[t1]).type = "End"
        /\ Live(t2)
        /\ watcher[K] = [handle |-> t2, stop_tx |-> t2]
        /\ ret = Started(K)

(***************************************************************************)
(* C6: stop_watch can always be called and returns success; once it has    *)
(* returned, the Watcher of its kind holds neither handle nor sender,      *)
(* whatever it held before; stopping twice gives what stopping once gives. *)
(***************************************************************************)
Stopped(K) == [cmd |-> "stop_watch", ok |-> TRUE, msg |-> StoppedMsg(K)]

C6_StopIdles ==
    /\ ret.cmd = "stop_watch" => ret.ok
    /\ \A K \in Kinds :
         /\ ret = Stopped(K) => (~is_active(K) /\ watcher[K] = WatcherNew)
         /\ LET w1  == StopWatcher(watcher[K])
                ts1 == StopTasks(watcher[K], tasks)
            IN  /\ StopWatcher(w1) = w1
                /\ StopTasks(w1, ts1) = ts1
    /\ \A K \in LifecycleKinds : ENABLED StopWatch(K)

\* a stop on a Watcher whose task had already exited when its stream ended
C6_Witness ==
    \E K \in Kinds, t \in TaskIds :
        /\ ret = Stopped(K)
        /\ watcher[K] = WatcherNew
        /\ tasks[t].kind = K
        /\ tasks[t].pc = "completed"
        /\ delivered[t] # <<>> /\ Last(delivered[t]).type = "End"
        /\ tasks[t].txDropped /\ ~tasks[t].abort /\ ~tasks[t].signal

(***************************************************************************)
(* C7: stop on an idle Watcher returns success and changes nothing else:   *)
(* no task is signalled or aborted, nothing is emitted, and its own and    *)
(* every other Watcher are as before.                                      *)
(***************************************************************************)
C7_StopIdleNoop ==
    [][ /\ \A K \in Kinds :
             (ret' # ret /\ watcher[K] = WatcherNew /\ StopWatch(K)) =>
                 /\ ret' = Stopped(K)
                 /\ UNCHANGED <<watcher, tasks, delivered, emitted, starting,
                                current_client, current_context, kubeconfig>>
        /\ StopTasks(WatcherNew, tasks') = tasks'
        /\ StopWatcher(WatcherNew) = WatcherNew
      ]_vars

\* a stop of a kind never started, while the task of another kind runs untouched
C7_Witness ==
    \E K \in Kinds, t \in TaskIds :
        /\ ret = Stopped(K)
        /\ \A u \in TaskIds : tasks[u].kind # K
        /\ watcher[K] = WatcherNew
        /\ Live(t) /\ ~tasks[t].signal /\ ~tasks[t].txDropped /\ ~tasks[t].abort
        /\ watcher[tasks[t].kind] = [handle |-> t, stop_tx |-> t]

(***************************************************************************)
(* Vocabulary of the properties: one step of one task.                     *)
(***************************************************************************)
\* the step hands the task t one more stream item
Takes(t) == Len(delivered'[t]) = Len(delivered[t]) + 1

IsMarker(n) == n.type \in {"Init", "InitApply", "InitDone"}

\* the history d shows key k through InitApply only
OnlyInitApplied(d, k) ==
    /\ \E i \in 1..Len(d) :
         d[i].type = "InitApply" /\ d[i].obj.name # None /\ Key(d[i].obj) = k
    /\ PriorOps(d, Len(d) + 1, k) = {}

IsWatchError(e) == IsErrorEvent(e) /\ e.payload.error = WatchErrorMsg
IsStreamEnded(e) == IsErrorEvent(e) /\ e.payload.error = StreamEndedMsg
IsErr(n) == n.type = "Err"
IsEnd(n) == n.type = "End"

(***************************************************************************)
(* C8: a step that takes Init, InitApply or InitDone emits nothing and     *)
(* leaves the seen set as it was; so the first upsert of a key that the    *)
(* task saw through InitApply only is emitted as Added.                    *)
(***************************************************************************)
C8_InitMarkersSilent ==
    [][ \A t \in TaskIds :
          /\ (Takes(t) /\ IsMarker(Last(delivered'[t]))) =>
                /\ emitted'[t] = emitted[t]
                /\ tasks'[t].seen = tasks[t].seen
          /\ (/\ Takes(t)
              /\ IsUpsert(Last(delivered'[t]))
              /\ OnlyInitApplied(delivered[t], Key(Last(delivered'[t]).obj))) =>
                /\ Len(emitted'[t]) = Len(emitted[t]) + 1
                /\ Last(emitted'[t]).payload =
                       [event_type |-> "Added", obj |-> Last(delivered'[t]).obj]
      ]_vars

\* Init, InitApply of a key, InitDone, then the first upsert of that key
C8_Witness ==
    \E t \in TaskIds :
        LET d == delivered[t]
        IN  /\ Len(d) = 4
            /\ d[1].type = "Init" /\ d[2].type = "InitApply" /\ d[3].type = "InitDone"
            /\ IsUpsert(d[4])
            /\ d[2].obj.name # None /\ Key(d[2].obj) = Key(d[4].obj)
            /\ Types(emitted[t]) = <<"Added">>
            /\ tasks[t].seen = {Key(d[4].obj)}

(***************************************************************************)
(* C9: a step that takes a subscription error emits exactly one error      *)
(* event under the kind's error name and leaves the task in its loop; the  *)
(* upserts taken after an error are classified by the usual rule; an error *)
(* followed by the upserts of two distinct keys yields one error event and *)
(* two Added events.                                                       *)
(***************************************************************************)
IsScenarioC9(d) ==
    /\ Len(d) = 3
    /\ IsErr(d[1]) /\ IsUpsert(d[2]) /\ IsUpsert(d[3])
    /\ Key(d[2].obj) # Key(d[3].obj)

C9_ErrorContinues ==
    [][ \A t \in TaskIds :
          LET d  == delivered[t]
              d2 == delivered'[t]
          IN  /\ (Takes(t) /\ IsErr(Last(d2))) =>
                    /\ \E ok \in BOOLEAN :
                         emitted'[t] =
                             Append(emitted[t],
                                    [name |-> WatchErrorName(tasks[t].kind),
                                     payload |-> [error |-> WatchErrorMsg],
                                     ok |-> ok])
                    /\ tasks'[t].pc = "loop"
              /\ Len(SelectSeq(emitted'[t], IsWatchError)) = Len(SelectSeq(d2, IsErr))
              /\ (/\ Takes(t)
                  /\ IsUpsert(Last(d2))
                  /\ \E i \in 1..Len(d) : IsErr(d[i])) =>
                    /\ Len(emitted'[t]) = Len(emitted[t]) + 1
                    /\ Last(emitted'[t]).payload =
                           [event_type |-> IF Fresh(d2, Len(d2)) THEN "Added" ELSE "Modified",
                            obj |-> Last(d2).obj]
              /\ IsScenarioC9(d2) => Types(emitted'[t]) = <<"error", "Added", "Added">>
      ]_vars

C9_Witness ==
    \E t \in TaskIds :
        /\ IsScenarioC9(delivered[t])
        /\ Types(emitted[t]) = <<"error", "Added", "Added">>
        /\ emitted[t][1].name = WatchErrorName(tasks[t].kind)
        /\ Live(t)

(***************************************************************************)
(* C10: the step that takes the end of the stream emits exactly one        *)
(* "Watch stream ended" error event under the kind's error name and leaves *)
(* the loop; from then on that task takes no item and emits nothing.       *)
(***************************************************************************)
C10_StreamEndOnce ==
    [][ \A t \in TaskIds :
          LET d  == delivered[t]
              d2 == delivered'[t]
          IN  /\ (Takes(t) /\ IsEnd(Last(d2))) =>
                    /\ \E ok \in BOOLEAN :
                         emitted'[t] =
                             Append(emitted[t],
                                    [name |-> WatchErrorName(tasks[t].kind),
                                     payload |-> [error |-> StreamEndedMsg],
                                     ok |-> ok])
                    /\ tasks'[t].pc = "completed"
              /\ (\E i \in 1..Len(d) : IsEnd(d[i])) =>
                    /\ emitted'[t] = emitted[t]
                    /\ d2 = d
                    /\ tasks'[t].pc = "completed"
              /\ Len(SelectSeq(emitted'[t], IsStreamEnded)) = Len(SelectSeq(d2, IsEnd))
              /\ Len(SelectSeq(d2, IsEnd)) <= 1
      ]_vars

\* a task whose stream ended after one event, and whose Watcher was stopped later
C10_Witness ==
    \E t \in TaskIds :
        /\ Len(delivered[t]) = 2 /\ IsEnd(delivered[t][2])
        /\ Len(emitted[t]) = 2
        /\ IsWatchEvent(emitted[t][1]) /\ IsStreamEnded(emitted[t][2])
        /\ emitted[t][2].name = WatchErrorName(tasks[t].kind)
        /\ tasks[t].pc = "completed"
        /\ ret = Stopped(tasks[t].kind) /\ tasks[t].txDropped

(***************************************************************************)
(* Vocabulary of the properties: the Watcher that holds a task.            *)
(***************************************************************************)
\* the task t left its loop when its stream ended
EndedByStream(t) ==
    /\ tasks[t].pc = "completed"
    /\ delivered[t] # <<>> /\ IsEnd(Last(delivered[t]))

\* the step is a stop() or a start() on the Watcher of kind K
StopsOrStarts(K) ==
    \/ StopWatch(K)
    \/ \E call \in starting : call.kind = K /\ StartWatchSpawn(call, MaxTasks)

(***************************************************************************)
(* C11: a step in which a task leaves its loop, whatever the reason,       *)
(* leaves every Watcher as it was, so the Watcher of a task whose stream   *)
(* ended still holds its handle and sender and is_active() is true; the    *)
(* handle and the sender of a Watcher change only in a stop() or a start() *)
(* on that Watcher.                                                        *)
(***************************************************************************)
C11_ActiveAfterStreamEnd ==
    [][ /\ \A t \in TaskIds :
             (Live(t) /\ tasks'[t].pc # "loop") => watcher' = watcher
        /\ \A t \in TaskIds :
             (Takes(t) /\ IsEnd(Last(delivered'[t]))) =>
                 \A K \in Kinds :
                     watcher[K].handle = t =>
                         (is_active(K))' /\ watcher'[K] = [handle |-> t, stop_tx |-> t]
        /\ \A K \in Kinds :
             watcher'[K] # watcher[K] => StopsOrStarts(K)
      ]_vars

\* the stream of the Watcher's task ended, other commands ran, and the Watcher is active
C11_Witness ==
    \E K \in Kinds, t \in TaskIds :
        /\ EndedByStream(t)
        /\ watcher[K] = [handle |-> t, stop_tx |-> t]
        /\ is_active(K)
        /\ ~tasks[t].abort /\ ~tasks[t].txDropped
        /\ \E K2 \in Kinds \ {K} : ret = Stopped(K2)

(***************************************************************************)
(* Vocabulary of the properties: stream items and the events they cause.   *)
(***************************************************************************)
\* the stream item n causes an emit()
Produces(n) == IsUpsert(n) \/ IsRemoval(n) \/ IsErr(n) \/ IsEnd(n)

\* the event e is the one the stream item n causes
EventOf(e, n) ==
    CASE IsErr(n) -> IsWatchError(e)
      [] IsEnd(n) -> IsStreamEnded(e)
      [] OTHER    -> /\ IsWatchEvent(e)
                     /\ e.payload.obj = n.obj
                     /\ (e.payload.event_type = "Deleted") = IsRemoval(n)

\* q is p with one element appended
Extends(q, p) == Len(q) = Len(p) + 1 /\ SubSeq(q, 1, Len(p)) = p

(***************************************************************************)
(* C12: in every task the emitted events are, one for one and in the same  *)
(* order, the events of the delivered items that cause an event: the event *)
(* of an earlier item stands before the event of a later one.  The event   *)
(* of an item is appended in the very step that takes the item, after all  *)
(* the events emitted before; no step emits more than one event or changes *)
(* an earlier one.                                                         *)
(***************************************************************************)
C12_EmittedInDeliveryOrder ==
    [][ \A t \in TaskIds :
          LET d == delivered'[t]
              e == emitted'[t]
              F == SelectSeq(d, Produces)
          IN  /\ Len(e) = Len(F)
              /\ \A i \in 1..Len(F) : EventOf(e[i], F[i])
              /\ (Takes(t) /\ Produces(Last(d))) =>
                    /\ Extends(e, emitted[t])
                    /\ EventOf(Last(e), Last(d))
              /\ (Takes(t) /\ ~Produces(Last(d))) => e = emitted[t]
              /\ ~Takes(t) => e = emitted[t]
      ]_vars

\* a removal, an error and the upsert of another object, in order, the first emit() refused
C12_Witness ==
    \E t \in TaskIds :
        LET d == delivered[t]
            e == emitted[t]
        IN  /\ Len(d) = 3 /\ Len(e) = 3
            /\ IsRemoval(d[1]) /\ IsErr(d[2]) /\ IsUpsert(d[3])
            /\ d[1].obj # d[3].obj
            /\ IsDeleted(e[1]) /\ e[1].payload.obj = d[1].obj /\ ~e[1].ok
            /\ IsWatchError(e[2])
            /\ IsClassified(e[3]) /\ e[3].payload.obj = d[3].obj

(***************************************************************************)
(* Vocabulary of the properties: upserts and removals, named or not.       *)
(***************************************************************************)
\* an upsert or a removal, with or without a name
IsChange(n) == n.type \in {"Apply", "Delete"}

\* an upsert or a removal of an object that has a name
IsNamedChange(n) == IsUpsert(n) \/ IsRemoval(n)

(***************************************************************************)
(* C13 as claimed: in every task the Watch Events emitted are as many as   *)
(* the upserts and removals delivered, one for each, whatever the object.  *)
(* (An upsert or removal of an object without a name gets no event.)       *)
(***************************************************************************)
C13_EveryChangeEmitsOnce ==
    \A t \in TaskIds :
        Len(SelectSeq(emitted[t], IsWatchEvent)) = Len(SelectSeq(delivered[t], IsChange))

(***************************************************************************)
(* C13 amended: in every task the Watch Events emitted are, one for one,   *)
(* the upserts and removals delivered whose object has a name, each event  *)
(* carrying the object of its notification and Deleted exactly for a       *)
(* removal; an upsert or removal of an object without a name emits nothing *)
(* and leaves the seen set as it was.                                      *)
(***************************************************************************)
C13_NamedChangeEmitsOnce ==
    [][ \A t \in TaskIds :
          LET d == delivered'[t]
              F == SelectSeq(d, IsNamedChange)
              E == SelectSeq(emitted'[t], IsWatchEvent)
          IN  /\ Len(E) = Len(F)
              /\ \A i \in 1..Len(F) :
                   /\ E[i].payload.obj = F[i].obj
                   /\ (E[i].payload.event_type = "Deleted") = IsRemoval(F[i])
              /\ \A i \in 1..Len(E) : E[i].payload.obj.name # None
              /\ (Takes(t) /\ IsChange(Last(d)) /\ Last(d).obj.name = None) =>
                    /\ emitted'[t] = emitted[t]
                    /\ tasks'[t].seen = tasks[t].seen
      ]_vars

\* the upsert and the removal of a named object among those of an object without a name
C13_Witness ==
    \E t \in TaskIds :
        LET d == delivered[t]
        IN  /\ Len(d) = 4
            /\ \A i \in 1..4 : IsChange(d[i])
            /\ d[1].obj.name = None /\ d[4].obj.name = None
            /\ d[2].type = "Apply" /\ d[3].type = "Delete"
            /\ d[2].obj.name # None /\ d[3].obj = d[2].obj
            /\ Types(emitted[t]) = <<"Added", "Deleted">>
            /\ tasks[t].seen = {}

(***************************************************************************)
(* Vocabulary of the properties: the run in which every emit() succeeds.   *)
(***************************************************************************)
Front(q) == SubSeq(q, 1, Len(q) - 1)

\* the seen set of a task that has taken the history d
RECURSIVE SeenOf(_)
SeenOf(d) == IF d = <<>> THEN {} ELSE SeenAfter(SeenOf(Front(d)), Last(d))

\* the emit log of a task of kind K that has taken the history d on a bus that accepts all
RECURSIVE LogOf(_, _)
LogOf(K, d) ==
    IF d = <<>> THEN <<>>
    ELSE IF IsEnd(Last(d))
         THEN Emit(LogOf(K, Front(d)), WatchErrorName(K), ErrorPayload(StreamEndedMsg), TRUE)
         ELSE LogAfter(K, SeenOf(Front(d)), LogOf(K, Front(d)), Last(d), TRUE)

\* a log without the outcomes of its emit() calls
Sent(log) == [i \in 1..Len(log) |-> [name |-> log[i].name, payload |-> log[i].payload]]

\* the step hands the task t an item whose emit() fails
EmitFails(t) ==
    /\ Takes(t)
    /\ emitted'[t] # emitted[t]
    /\ ~Last(emitted'[t]).ok

(***************************************************************************)
(* C14: a step whose emit() fails (for a Watch Event or for a subscription *)
(* error) leaves the task in its loop and returns nothing to any command;  *)
(* a task that has had emissions fail is in its loop until its stream      *)
(* ends, and its seen set and the events it sends are those of the run in  *)
(* which every emission of the same stream succeeds.                       *)
(***************************************************************************)
C14_EmitFailureSwallowed ==
    [][ \A t \in TaskIds :
          /\ EmitFails(t) =>
                /\ ret' = ret
                /\ ~IsEnd(Last(delivered'[t])) => tasks'[t].pc = "loop"
                /\ tasks'[t].seen = SeenAfter(tasks[t].seen, Last(delivered'[t]))
          /\ tasks'[t].pc = "loop" <=> \A i \in 1..Len(delivered'[t]) : ~IsEnd(delivered'[t][i])
          /\ tasks'[t].seen = SeenOf(delivered'[t])
          /\ Sent(emitted'[t]) = Sent(LogOf(tasks'[t].kind, delivered'[t]))
      ]_vars

\* a failed error event, a failed Added event, then a Modified event that goes through
C14_Witness ==
    \E t \in TaskIds :
        LET d == delivered[t]
            e == emitted[t]
        IN  /\ Len(d) = 3 /\ Len(e) = 3
            /\ IsErr(d[1]) /\ IsUpsert(d[2]) /\ IsUpsert(d[3])
            /\ ~e[1].ok /\ ~e[2].ok /\ e[3].ok
            /\ Types(e) = <<"error", "Added", "Modified">>
            /\ Live(t)

(***************************************************************************)
(* C15: no task is live once the Watcher that spawned it has been          *)
(* destroyed.  (Drop runs stop(), which sends the stop message and         *)
(* requests the abort, and returns before the task has ended.)             *)
(***************************************************************************)
C15_NoLiveTaskAfterDrop ==
    \A t \in TaskIds : tasks[t].kind \notin DOMAIN watcher => ~Live(t)

(***************************************************************************)
(* Vocabulary of the properties: the event names of the contract.          *)
(***************************************************************************)
EventNameOf(K) == K \o "-watch-event"
ErrorNameOf(K) == K \o "-watch-error"
NamesOf(K) == {EventNameOf(K), ErrorNameOf(K)}

(***************************************************************************)
(* C16: every event a task of kind K emits goes out under K's own names:   *)
(* an Added, Modified or Deleted event as "K-watch-event", a subscription  *)
(* error and the end of the stream as "K-watch-error", for each of the     *)
(* seven kinds; no event goes out under a name of another kind.            *)
(***************************************************************************)
C16_OwnEventNames ==
    /\ Kinds = {"pod", "deployment", "statefulset", "daemonset", "replicaset",
                "service", "cronjob"}
    /\ \A t \in TaskIds :
         LET K == tasks[t].kind
         IN  \A i \in 1..Len(emitted[t]) :
                LET e == emitted[t][i]
                IN  /\ IsWatchEvent(e) => e.name = EventNameOf(K)
                    /\ IsErrorEvent(e) => e.name = ErrorNameOf(K)
                    /\ IsWatchEvent(e) \/ IsErrorEvent(e)
                    /\ \A K2 \in Kinds \ {K} : e.name \notin NamesOf(K2)

\* the cron job task has emitted an Added event, an error, a Deleted event and the stream end
C16_Witness ==
    \E t \in TaskIds :
        LET e == emitted[t]
        IN  /\ tasks[t].kind = "cronjob"
            /\ watcher["cronjob"].handle = t
            /\ Len(e) = 4
            /\ Types(e) = <<"Added", "error", "Deleted", "error">>
            /\ IsWatchError(e[2]) /\ IsStreamEnded(e[4])
            /\ e[1].name = "cronjob-watch-event" /\ e[3].name = "cronjob-watch-event"
            /\ e[2].name = "cronjob-watch-error" /\ e[4].name = "cronjob-watch-error"

(***************************************************************************)
(* Vocabulary of the properties: a task let go by its Watcher.             *)
(***************************************************************************)
\* the task t is in its loop and its Watcher holds it no more
LetGo(t) == t \in TaskIds /\ Live(t) /\ watcher[tasks[t].kind].handle # t

Ended(t) == t \in TaskIds /\ ~Live(t)

(***************************************************************************)
(* C17: a stop() on a Watcher whose task is in its loop puts the stop      *)
(* message in the task's channel, drops the sender and requests the abort; *)
(* under fair scheduling of the tasks, a task in its loop that its Watcher *)
(* holds no more ends eventually, whether or not its stream delivers       *)
(* anything.                                                               *)
(***************************************************************************)
C17_StoppedTaskEnds ==
    /\ [][ \A K \in LifecycleKinds :
             (StopWatch(K) /\ is_active(K) /\ Live(watcher[K].handle)) =>
                 LET t == watcher[K].handle
                 IN  tasks'[t].signal /\ tasks'[t].txDropped /\ tasks'[t].abort
         ]_vars
    /\ \A t \in 1..MaxTasks : LetGo(t) ~> Ended(t)

\* a task stopped by stop_watch has ended without having taken a single item
C17_Witness ==
    \E t \in TaskIds :
        /\ tasks[t].pc \in {"completed", "cancelled"}
        /\ delivered[t] = <<>>
        /\ tasks[t].txDropped
        /\ ret = Stopped(tasks[t].kind)
        /\ watcher[tasks[t].kind] = WatcherNew

(***************************************************************************)
(* Vocabulary of the properties: the tasks of one Watcher.                 *)
(***************************************************************************)
TasksOf(K) == {t \in TaskIds : tasks[t].kind = K}

\* stop() has reached the task t of the table ts: sender dropped, and message and abort
\* if it was in its loop
DismissedIn(ts, t) ==
    /\ ts[t].txDropped
    /\ ts[t].pc = "loop" => (ts[t].signal /\ ts[t].abort)

Dismissed(t) == DismissedIn(tasks, t)

\* neither stop() nor start() has reached the task t since it was spawned
UntouchedIn(ts, t) == ~ts[t].txDropped /\ ~ts[t].signal /\ ~ts[t].abort

Untouched(t) == UntouchedIn(tasks, t)

(***************************************************************************)
(* C18: the start_watch and stop_watch calls of one kind take effect one   *)
(* at a time, in the order they get the Watcher's lock, however they       *)
(* overlap: a start leaves the Watcher holding the task it spawns, bound   *)
(* to the client that call read; a stop leaves it holding nothing; no      *)
(* other step changes the Watcher.  So at any time the Watcher holds the   *)
(* task of the start served last, untouched, or nothing if a stop was      *)
(* served last, and every other task of the kind has been signalled and    *)
(* aborted (or had ended before).                                          *)
(***************************************************************************)
C18_StartStopSerialize ==
    [][ \A K \in LifecycleKinds :
          /\ StopWatch(K) => watcher'[K] = WatcherNew
          /\ \A call \in starting :
               (call.kind = K /\ StartWatchSpawn(call, MaxTasks)) =>
                   /\ watcher'[K].handle = Len(tasks')
                   /\ tasks'[Len(tasks')].client = call.client
                   /\ starting' = starting \ {call}
          /\ ~StopsOrStarts(K) => watcher'[K] = watcher[K]
          /\ LET h == watcher'[K].handle
                 T == {t \in 1..Len(tasks') : tasks'[t].kind = K}
             IN  /\ h # NoTask =>
                      /\ h \in T /\ \A t \in T : t <= h
                      /\ UntouchedIn(tasks', h)
                 /\ \A t \in T \ {h} : DismissedIn(tasks', t)
      ]_vars

\* two starts of one kind overlapped: the one that read its client first was served last
C18_Witness ==
    \E K \in LifecycleKinds :
        /\ starting = {}
        /\ TasksOf(K) = {1, 2}
        /\ tasks[1].client = "ctx2" /\ tasks[2].client = "ctx1"
        /\ current_client = "ctx2"
        /\ watcher[K] = [handle |-> 2, stop_tx |-> 2]
        /\ Live(1) /\ Dismissed(1) /\ Live(2) /\ Untouched(2)

(***************************************************************************)
(* C19: between any two steps (each command holds the Watcher's lock for   *)
(* the whole of its stop() or start()), every Watcher holds either no      *)
(* handle and no sender, or the handle and the sender of one and the same  *)
(* task of its kind, the sender still open; a Watcher that has never been  *)
(* started, as every Watcher is when the AppState is created, holds        *)
(* neither.                                                                *)
(***************************************************************************)
C19_IdleOrRunning ==
    \A K \in Kinds :
        /\ (watcher[K].handle = NoTask) = (watcher[K].stop_tx = NoTask)
        /\ is_active(K) =>
              /\ watcher[K].stop_tx = watcher[K].handle
              /\ watcher[K].handle \in TasksOf(K)
              /\ ~tasks[watcher[K].handle].txDropped
        /\ TasksOf(K) = {} => watcher[K] = WatcherNew

\* one Watcher running, another idle again after a start and a stop
C19_Witness ==
    \E K1, K2 \in Kinds, t1, t2 \in TaskIds :
        /\ K1 # K2
        /\ watcher[K1] = [handle |-> t1, stop_tx |-> t1]
        /\ tasks[t1].kind = K1 /\ Live(t1) /\ Untouched(t1)
        /\ tasks[t2].kind = K2 /\ Dismissed(t2)
        /\ watcher[K2] = WatcherNew
        /\ ret = Stopped(K2)

(***************************************************************************)
(* Vocabulary of the properties: the keys of the objects that have a name. *)
(***************************************************************************)
AllKeys == {Key(o) : o \in {x \in Objects : x.name # None}}

\* the latest upsert or removal of key k in the history d is an upsert
LastOpIsUpsert(d, k) ==
    LET P == PriorOps(d, Len(d) + 1, k)
    IN  P # {} /\ IsUpsert(d[SetMax(P)])

\* the log e holds an Added event for key k
AddedFor(e, k) ==
    \E i \in 1..Len(e) :
        /\ IsWatchEvent(e[i])
        /\ e[i].payload.event_type = "Added"
        /\ Key(e[i].payload.obj) = k

(***************************************************************************)
(* C20: in every state of a task, a key is in the seen set exactly when    *)
(* the latest upsert or removal of that key the task has processed is an   *)
(* upsert; every key in the set has had an Added event emitted for it by   *)
(* the task; and the set changes only in a step that takes the upsert of   *)
(* a key not in it, which inserts the key, or the removal of a key in it,  *)
(* which deletes the key.                                                  *)
(***************************************************************************)
C20_SeenIsLiveKeys ==
    [][ \A t \in TaskIds :
          LET d   == delivered'[t]
              old == tasks[t].seen
              new == tasks'[t].seen
          IN  /\ new \subseteq AllKeys
              /\ \A k \in AllKeys : k \in new <=> LastOpIsUpsert(d, k)
              /\ \A k \in new : AddedFor(emitted'[t], k)
              /\ new # old =>
                    /\ Takes(t)
                    /\ \/ /\ IsUpsert(Last(d))
                          /\ Key(Last(d).obj) \notin old
                          /\ new = old \cup {Key(Last(d).obj)}
                       \/ /\ IsRemoval(Last(d))
                          /\ Key(Last(d).obj) \in old
                          /\ new = old \ {Key(Last(d).obj)}
      ]_vars

\* two keys upserted, one of them removed, the other upserted again
C20_Witness ==
    \E t \in TaskIds :
        LET d == delivered[t]
        IN  /\ Len(d) = 4
            /\ IsUpsert(d[1]) /\ IsUpsert(d[2]) /\ IsRemoval(d[3]) /\ IsUpsert(d[4])
            /\ Key(d[1].obj) # Key(d[2].obj)
            /\ Key(d[3].obj) = Key(d[1].obj) /\ Key(d[4].obj) = Key(d[2].obj)
            /\ d[2].obj.namespace = None /\ d[4].obj.namespace = "default"
            /\ Types(emitted[t]) = <<"Added", "Added", "Deleted", "Modified">>
            /\ tasks[t].seen = {"default/a"}
            /\ Live(t)

(***************************************************************************)
(* C21: the task a start() spawns has an empty seen set and an empty       *)
(* history, whatever the tasks before it have seen; the seen set of a task *)
(* is that of its own history alone; so the first upsert of a key a task   *)
(* takes is emitted as Added, also when an earlier task of the same kind   *)
(* has emitted Added or Modified for that key.                             *)
(***************************************************************************)
C21_FreshSeenPerTask ==
    [][ /\ \A call \in starting :
             StartWatchSpawn(call, MaxTasks) =>
                 LET t == Len(tasks')
                 IN  /\ tasks'[t].seen = {}
                     /\ delivered'[t] = <<>> /\ emitted'[t] = <<>>
                     /\ \A u \in TaskIds : tasks'[u].seen = tasks[u].seen
        /\ \A t \in TaskIds :
             /\ tasks'[t].seen = SeenOf(delivered'[t])
             /\ (/\ Takes(t)
                 /\ IsUpsert(Last(delivered'[t]))
                 /\ PriorOps(delivered[t], Len(delivered[t]) + 1,
                             Key(Last(delivered'[t]).obj)) = {}) =>
                   /\ Extends(emitted'[t], emitted[t])
                   /\ Last(emitted'[t]).payload =
                          [event_type |-> "Added", obj |-> Last(delivered'[t]).obj]
      ]_vars

\* the task of a restart emits Added for the key its predecessor had emitted Added for
C21_Witness ==
    \E t1, t2 \in TaskIds :
        /\ t1 < t2 /\ tasks[t1].kind = tasks[t2].kind
        /\ Len(delivered[t1]) = 1 /\ IsUpsert(delivered[t1][1])
        /\ delivered[t2] = delivered[t1]
        /\ Types(emitted[t1]) = <<"Added">> /\ Types(emitted[t2]) = <<"Added">>
        /\ Dismissed(t1)
        /\ watcher[tasks[t2].kind].handle = t2

(***************************************************************************)
(* C23: a context switch (kuboard_set_context) replaces the active client  *)
(* and leaves every Watcher and every task as it was: no task is stopped,  *)
(* restarted or re-subscribed, and a task keeps the client it was started  *)
(* with for as long as it exists.                                           *)
(***************************************************************************)
C23_SwitchLeavesWatchers ==
    [][ /\ (current_client' # current_client \/ current_context' # current_context) =>
              /\ current_client' \in Contexts
              /\ UNCHANGED <<watcher, tasks, delivered, emitted, starting>>
        /\ \A t \in TaskIds : tasks'[t].client = tasks[t].client
      ]_vars

\* a task started under one context still runs, undisturbed and held by its
\* Watcher, after the active client was switched to another context
C23_Witness ==
    \E t \in TaskIds :
        /\ Live(t) /\ Untouched(t)
        /\ watcher[tasks[t].kind].handle = t
        /\ current_client \in Contexts
        /\ tasks[t].client \in Contexts \ {current_client}

\* the object has a name and lives in the default namespace, named or absent
InDefault(o) == o.name # None /\ o.namespace \in {None, "default"}

\* positions of the history d that upsert or remove a default-namespace object called name
DefaultOps(d, name) ==
    {j \in 1..Len(d) : /\ (IsUpsert(d[j]) \/ IsRemoval(d[j]))
                        /\ InDefault(d[j].obj) /\ d[j].obj.name = name}

(***************************************************************************)
(* C24: an object without a namespace and an object in namespace "default" *)
(* with the same name are one identity, kept under the key                 *)
(* "default/<name>": an upsert of either is Modified exactly when the      *)
(* latest earlier upsert or removal of either was an upsert, and Added     *)
(* otherwise; a removal of either takes the key out of the seen set.       *)
(***************************************************************************)
C24_AbsentNamespaceIsDefault ==
    [][ \A t \in TaskIds :
          (Takes(t) /\ IsNamedChange(Last(delivered'[t]))
                    /\ InDefault(Last(delivered'[t]).obj)) =>
            LET n == Last(delivered'[t])
                P == DefaultOps(delivered[t], n.obj.name)
                k == "default/" \o n.obj.name
            IN  /\ Extends(emitted'[t], emitted[t])
                /\ Last(emitted'[t]).payload.obj = n.obj
                /\ IsUpsert(n) =>
                      /\ k \in tasks'[t].seen
                      /\ Last(emitted'[t]).payload.event_type =
                            IF P # {} /\ IsUpsert(delivered[t][SetMax(P)])
                            THEN "Modified" ELSE "Added"
                /\ IsRemoval(n) =>
                      /\ k \notin tasks'[t].seen
                      /\ Last(emitted'[t]).payload.event_type = "Deleted"
      ]_vars

\* upsert without namespace, upsert in "default", removal without namespace, upsert in
\* "default": Added, Modified, Deleted, Added
C24_Witness ==
    \E t \in TaskIds :
        /\ Len(delivered[t]) = 4
        /\ IsUpsert(delivered[t][1]) /\ delivered[t][1].obj.namespace = None
        /\ IsUpsert(delivered[t][2]) /\ delivered[t][2].obj.namespace = "default"
        /\ IsRemoval(delivered[t][3]) /\ delivered[t][3].obj.namespace = None
        /\ IsUpsert(delivered[t][4]) /\ delivered[t][4].obj.namespace = "default"
        /\ Types(emitted[t]) = <<"Added", "Modified", "Deleted", "Added">>

\* the name a kind goes by in the messages of its commands
Display(K) ==
    CASE K = "pod"         -> "Pod"
      [] K = "deployment"  -> "Deployment"
      [] K = "statefulset" -> "StatefulSet"
      [] K = "daemonset"   -> "DaemonSet"
      [] K = "replicaset"  -> "ReplicaSet"
      [] K = "service"     -> "Service"
      [] K = "cronjob"     -> "CronJob"

\* an event name of kind K with the kind taken out
Unkinded(K, s) ==
    CASE s = K \o "-watch-event" -> "watch-event"
      [] s = K \o "-watch-error" -> "watch-error"
      [] OTHER                    -> "foreign"

\* a command message of kind K with the kind taken out
UnkindedMsg(K, s) ==
    CASE s = Display(K) \o " watch started" -> "watch started"
      [] s = Display(K) \o " watch stopped" -> "watch stopped"
      [] OTHER                              -> "foreign"

UnkindedLog(K, log) == [i \in 1..Len(log) |-> [log[i] EXCEPT !.name = Unkinded(K, @)]]

\* what the task of kind K emits for the item n when its seen set is seen
EmitsFor(K, seen, n) ==
    IF IsEnd(n) THEN Emit(<<>>, WatchErrorName(K), ErrorPayload(StreamEndedMsg), TRUE)
                ELSE LogAfter(K, seen, <<>>, n, TRUE)

\* the tasks of kind K in the order they were spawned
KindIds(K) == SelectSeq([i \in 1..Len(tasks) |-> i], LAMBDA i : tasks[i].kind = K)

\* what the tasks of kind K went through, with the kind taken out
TaskView(K) ==
    LET ids == KindIds(K)
    IN  [i \in 1..Len(ids) |->
           [pc |-> tasks[ids[i]].pc, seen |-> tasks[ids[i]].seen,
            signal |-> tasks[ids[i]].signal, txDropped |-> tasks[ids[i]].txDropped,
            abort |-> tasks[ids[i]].abort, delivered |-> delivered[ids[i]],
            log |-> UnkindedLog(K, emitted[ids[i]])]]

\* which of its tasks, counted in spawn order, the Watcher of kind K holds
WatcherView(K) ==
    LET ids == KindIds(K)
        Pos(t) == IF t = NoTask THEN 0 ELSE CHOOSE i \in 1..Len(ids) : ids[i] = t
    IN  [handle |-> Pos(watcher[K].handle), stop_tx |-> Pos(watcher[K].stop_tx)]

C26_NoEventAfterStop ==
    [][ \A t \in TaskIds :
          watcher[tasks[t].kind] = WatcherNew =>
              /\ emitted'[t] = emitted[t]
              /\ delivered'[t] = delivered[t]
      ]_vars

(***************************************************************************)
(* C29: the seen set is updated whatever becomes of the emit().  A step    *)
(* that takes an upsert of key k leaves k in the seen set and one that     *)
(* takes a removal leaves k out of it, whether the bus accepts the event   *)
(* or refuses it; so an upsert is Modified exactly when the latest earlier *)
(* upsert or removal of its key was an upsert, even one whose Added event  *)
(* was refused, and Added after a removal even if its Deleted event was    *)
(* refused.                                                                *)
(***************************************************************************)
C29_SeenWhateverEmit ==
    [][ \A t \in TaskIds :
          (Takes(t) /\ IsNamedChange(Last(delivered'[t]))) =>
            LET n == Last(delivered'[t])
                k == Key(n.obj)
                P == PriorOps(delivered[t], Len(delivered[t]) + 1, k)
            IN  /\ Extends(emitted'[t], emitted[t])
                /\ IsUpsert(n) =>
                      /\ k \in tasks'[t].seen
                      /\ Last(emitted'[t]).payload.event_type =
                            IF P # {} /\ IsUpsert(delivered[t][SetMax(P)])
                            THEN "Modified" ELSE "Added"
                /\ IsRemoval(n) =>
                      /\ k \notin tasks'[t].seen
                      /\ Last(emitted'[t]).payload.event_type = "Deleted"
      ]_vars

\* upsert, upsert, removal of one key: the Added and the Deleted event were refused, the
\* second upsert was Modified all the same and the key is gone
C29_Witness ==
    \E t \in TaskIds :
        /\ Len(delivered[t]) = 3
        /\ IsUpsert(delivered[t][1]) /\ IsUpsert(delivered[t][2]) /\ IsRemoval(delivered[t][3])
        /\ \A i \in 2..3 : Key(delivered[t][i].obj) = Key(delivered[t][1].obj)
        /\ Types(emitted[t]) = <<"Added", "Modified", "Deleted">>
        /\ ~emitted[t][1].ok /\ ~emitted[t][3].ok
        /\ tasks[t].seen = {}

\* the history d without its subscription errors
WithoutErrors(d) == SelectSeq(d, LAMBDA x : ~IsErr(x))

(***************************************************************************)
(* C30: a subscription error leaves the seen set as it was and the task in *)
(* its loop, and emits the error event; every upsert or removal taken      *)
(* later is classified as in the history without the error items.          *)
(***************************************************************************)
C30_ErrorLeavesSeen ==
    [][ \A t \in TaskIds :
          Takes(t) =>
            LET n == Last(delivered'[t])
                d == WithoutErrors(delivered[t])
            IN  /\ IsErr(n) =>
                      /\ tasks'[t].seen = tasks[t].seen
                      /\ tasks'[t].pc = tasks[t].pc
                      /\ Extends(emitted'[t], emitted[t])
                      /\ IsWatchError(Last(emitted'[t]))
                /\ IsNamedChange(n) =>
                      /\ Extends(emitted'[t], emitted[t])
                      /\ Last(emitted'[t]).payload.event_type =
                            IF IsRemoval(n) THEN "Deleted"
                            ELSE IF LastOpIsUpsert(d, Key(n.obj)) THEN "Modified" ELSE "Added"
      ]_vars

\* upsert, error, upsert of one key: Added, error event, Modified
C30_Witness ==
    \E t \in TaskIds :
        /\ Len(delivered[t]) = 3
        /\ IsUpsert(delivered[t][1]) /\ IsErr(delivered[t][2]) /\ IsUpsert(delivered[t][3])
        /\ Key(delivered[t][3].obj) = Key(delivered[t][1].obj)
        /\ Types(emitted[t]) = <<"Added", "error", "Modified">>
        /\ IsWatchError(emitted[t][2])

\* the step spawns a task
Spawns == Len(tasks') = Len(tasks) + 1

(***************************************************************************)
(* C27 as claimed: the task a start_watch spawns is bound to the client    *)
(* that is the active client at the moment of the spawn, whatever          *)
(* kuboard_set_context does meanwhile.  (The client is read and its lock   *)
(* released before the Watcher is locked: a context switch in between      *)
(* leaves the task with the client read before the switch.)                *)
(***************************************************************************)
C27_SpawnBindsCurrentClient ==
    [][ Spawns => tasks'[Len(tasks')].client = current_client ]_vars

(***************************************************************************)
(* C27, amended: the task a start_watch spawns is bound to the client that *)
(* was the active client when that start_watch read it; a context switch   *)
(* between the read and the spawn changes neither the client the call has  *)
(* read nor the client of the task.                                        *)
(***************************************************************************)
C27_SpawnBindsClientRead ==
    [][ /\ \A call \in starting' \ starting : call.client = current_client
        /\ Spawns =>
              \E call \in starting :
                  /\ starting' = starting \ {call}
                  /\ tasks'[Len(tasks')].kind = call.kind
                  /\ tasks'[Len(tasks')].client = call.client
        /\ current_client' # current_client =>
              /\ starting' = starting
              /\ tasks' = tasks
      ]_vars

\* a start_watch has read the client of one context and has not yet locked its Watcher,
\* and the active client is by now that of another context
C27_Witness ==
    \E call \in starting :
        /\ call.client \in Contexts
        /\ current_client \in Contexts \ {call.client}
        /\ Len(tasks) < MaxTasks

\* the call c has been invoked and has not returned
Pending(c) == c \in DOMAIN calls /\ calls[c].pc # "returned"

\* the call c is in the queue of the lock L
Queued(c, L) == \E i \in 1..Len(locks[L].queue) : locks[L].queue[i].call = c

\* the call c owns a guard of the lock L
Owns(c, L) == c \in locks[L].readers \/ locks[L].writer = c

IsWatchCall(c) == calls[c].cmd \in {"start_watch", "stop_watch"}

(***************************************************************************)
(* C28: the commands never deadlock on the locks of the registry.  While   *)
(* a call is pending some call can take a step; no start_watch or          *)
(* stop_watch owns the guard of the client while it waits for the lock of  *)
(* a Watcher; and, the scheduler being fair, the run comes to a point from *)
(* which every command that was invoked has returned.                      *)
(***************************************************************************)
C28_NoDeadlock ==
    /\ []((\E c \in DOMAIN calls : Pending(c)) => \E c \in DOMAIN calls : ENABLED CallStep(c))
    /\ [](\A c \in DOMAIN calls, K \in Kinds :
            (IsWatchCall(c) /\ Queued(c, WatcherLock(K))) => ~Owns(c, "current_client"))
    /\ <>[](\A c \in DOMAIN calls : ~Pending(c))

\* a kuboard_set_context that owns the kubeconfig guard waits for the client lock, which
\* a start_watch owns, while a kuboard_list_contexts waits to write the kubeconfig
C28_Witness ==
    \E c1, c2, c3 \in DOMAIN calls :
        /\ calls[c1].cmd = "set_context" /\ Owns(c1, "kubeconfig") /\ Queued(c1, "current_client")
        /\ calls[c2].cmd = "start_watch" /\ Owns(c2, "current_client")
        /\ calls[c3].cmd = "list_contexts" /\ Queued(c3, "kubeconfig")

\* the step is one of the call c
StepOf(c) == c \in DOMAIN calls' /\ (c \notin DOMAIN calls \/ calls'[c] # calls[c])

\* the step leaves the task t as it was
TaskKept(t) ==
    /\ tasks'[t] = tasks[t]
    /\ delivered'[t] = delivered[t]
    /\ emitted'[t] = emitted[t]

(***************************************************************************)
(* C22: the kinds are independent.  A step of a start_watch or stop_watch  *)
(* of kind K leaves the Watcher of every other kind, its lock (holders     *)
(* and queue) and its tasks with their seen sets and logs as they were,    *)
(* and the call waits for no lock but the client's and that of its own     *)
(* Watcher; a step of a task changes that task and nothing else.           *)
(***************************************************************************)
C22_KindsIndependent ==
    [][ /\ \A c \in DOMAIN calls' :
              (StepOf(c) /\ calls'[c].cmd \in {"start_watch", "stop_watch"}) =>
                  LET K == calls'[c].arg
                  IN  /\ calls'[c].lock \in {None, "current_client", WatcherLock(K)}
                      /\ \A K2 \in Kinds \ {K} :
                            /\ watcher'[K2] = watcher[K2]
                            /\ locks'[WatcherLock(K2)] = locks[WatcherLock(K2)]
                      /\ \A t \in TaskIds : tasks[t].kind # K => TaskKept(t)
        /\ calls' = calls =>
              /\ locks' = locks
              /\ tasks' # tasks \/ delivered' # delivered \/ emitted' # emitted =>
                    /\ UNCHANGED <<watcher, starting, ret, current_client>>
                    /\ Len(tasks') = Len(tasks)
                    /\ \E t \in TaskIds : \A u \in TaskIds \ {t} : TaskKept(u)
      ]_vars

\* a stop_watch of one kind has stopped its task and returned while the task of the other
\* kind, with a key in its seen set, runs on, held by its Watcher
C22_Witness ==
    \E c \in DOMAIN calls, t1, t2 \in TaskIds :
        /\ calls[c].cmd = "stop_watch" /\ calls[c].pc = "returned"
        /\ tasks[t1].kind = calls[c].arg /\ Dismissed(t1)
        /\ watcher[calls[c].arg] = WatcherNew
        /\ tasks[t2].kind # calls[c].arg
        /\ Live(t2) /\ Untouched(t2) /\ tasks[t2].seen # {}
        /\ watcher[tasks[t2].kind].handle = t2

====
